---- MODULE Spec2Model ----
(***************************************************************************)
(* A model of the per-user memory store of super_chizuko:                  *)
(*   - MemoryManagerV2 (backend/memory_manager_v2.py): add / retrieve /    *)
(*     clear / prune over a vector-index collection, behind one lock;      *)
(*   - MemoryManager (backend/memory_manager.py): the legacy store;        *)
(*   - MemoryManagerWrapper (backend/memory_manager_wrapper.py): backend   *)
(*     selection, guarded dispatch and fallback.                           *)
(*                                                                         *)
(* Time is in whole seconds (int(time.time())).  Importance and cosine     *)
(* distance are kept in tenths, scores in units of 1/(100*86400), so that  *)
(* the weighted score 0.7*sim + 0.2*recency + 0.1*importance is an exact   *)
(* integer.                                                                *)
(***************************************************************************)
EXTENDS Integers, Sequences, FiniteSets, TLC

\* ------------------------------------------------------------------ bounds
MaxTime == 3
MaxOps == 3
MaxLimit == 2
\* constructor parameters of MemoryManagerV2, chosen small
max_items_per_user == 2
short_term_expire_sec == 2
history_expire_sec == 1

\* ------------------------------------------------------- program constants
DAY == 86400
W_SIM == 7
W_RECENCY == 2
W_IMPORTANCE == 1
OVERFETCH == 3
DEFAULT_IMPORTANCE == 3

\* ------------------------------------------------------------ input domains
Threads == {"t1", "t2"}
Users == {"u1", "u2"}
Contents == {"hello", "bye"}
MemoryTypes == {"longterm", "shortterm", "history", "profile"}
Importances == {1, DEFAULT_IMPORTANCE, 5}
TagChoices == {<<>>}
Limits == 1..MaxLimit

NoId == <<>>
NoLock == "free"

NoName == "none"
CollectionNames == {"memory_u1"}

VARIABLES
    collection,   \* MemoryManagerV2.collection: the records, in index order
    clock,        \* int(time.time())
    lock,         \* MemoryManagerV2.lock: NoLock or the thread holding it
    pc,           \* per thread: position inside the current call
    args,         \* per thread: arguments of the current call
    memory_id,    \* per thread: add_memory's local memory_id
    prune_now,    \* per thread: _prune_user_memory's local now
    items,        \* per thread: the items query / get returned in the current call
    now_l,        \* per thread: retrieve_relevant_memories' local now
    processed,    \* per thread: the value the call is about to return
    nops,         \* number of calls issued so far
    serial,       \* the collection as the completed calls leave it when each
                  \* is run alone, in the order they took the lock
    w_v2,         \* wrapper: self._v2 is not None
    w_v1,         \* wrapper: self._v1 is not None
    w_v1_mod,     \* wrapper: self._v1_mod is not None
    force_v1,     \* wrapper: self._force_v1
    force_v2,     \* wrapper: self._force_v2
    v1_collection_name,  \* legacy store: self.collection_name (NoName: None)
    v1_store,     \* legacy store: the items of each named collection
    w_last,       \* wrapper: the last uniform call, its backend calls and outcome
    v2_broken,    \* the advanced store's index raises on every call
    w_lock,       \* wrapper: self._lock, NoLock or the thread holding it
    wpc,          \* per thread: position inside the current wrapper call
    f_enable      \* per thread: the argument enable of force_use_v1 / _v2

svars == <<collection, clock, lock, pc, args, memory_id, prune_now, items,
           now_l, processed, nops, serial>>
cvars == <<w_lock, wpc, f_enable>>
wvars == <<w_v2, w_v1, w_v1_mod, force_v1, force_v2, v1_collection_name,
           v1_store, w_last, v2_broken, cvars>>
vars == <<svars, wvars>>

\* ------------------------------------------------------------ pure helpers
Min(a, b) == IF a < b THEN a ELSE b

Range(s) == {s[i] : i \in 1..Len(s)}

Take(s, n) == SubSeq(s, 1, Min(n, Len(s)))

\* list.sort(key=...) is stable: an element goes behind every element whose key
\* is not greater.  The sequences sorted here hold records [key, val].
RECURSIVE InsertStable(_, _)
InsertStable(x, s) ==
    IF s = <<>> THEN <<x>>
    ELSE IF x.key < s[Len(s)].key
         THEN Append(InsertStable(x, SubSeq(s, 1, Len(s) - 1)), s[Len(s)])
         ELSE Append(s, x)

RECURSIVE StableSort(_)
StableSort(s) ==
    IF s = <<>> THEN <<>>
    ELSE InsertStable(s[Len(s)], StableSort(SubSeq(s, 1, Len(s) - 1)))

Vals(s) == [i \in 1..Len(s) |-> s[i].val]

\* abs(hash(content)): a fingerprint of the content
Hash(c) == IF c = "hello" THEN 11 ELSE 23

\* f"{user_id}_{ts}_{abs(hash(content))}"
MakeId(user_id, ts, content) == <<user_id, ts, Hash(content)>>

\* cosine distance of query and document embeddings, in tenths
Distance(query, content) == IF query = content THEN 0 ELSE 10

OfUser(s, u) == SelectSeq(s, LAMBDA r : r.user_id = u)

Ids(s) == [i \in 1..Len(s) |-> s[i].id]

\* --------------------------------------------- MemoryManagerV2: pure parts
\* faulty variant: last_access starts at the epoch
NewRecord_NeverAccessed(user_id, content, memory_type, tags, importance, ts) ==
    [id |-> MakeId(user_id, ts, content),
     user_id |-> user_id,
     content |-> content,
     memory_type |-> memory_type,
     tags |-> tags,
     importance |-> importance,
     created_at |-> ts,
     last_access |-> 0]

\* the record add_memory writes at time ts
NewRecord(user_id, content, memory_type, tags, importance, ts) ==
    [id |-> MakeId(user_id, ts, content),
     user_id |-> user_id,
     content |-> content,
     memory_type |-> memory_type,
     tags |-> tags,
     importance |-> importance,
     created_at |-> ts,
     last_access |-> ts]

\* collection.add: ids are keys of the index; adding an id the index already
\* holds stores no second item and leaves the stored one as it is
CollectionAdd(s, r) ==
    IF \E i \in 1..Len(s) : s[i].id = r.id THEN s ELSE Append(s, r)

\* faulty variant: a record whose age equals the window is expired already
Expired_AtWindow(r, now) ==
    \/ r.memory_type = "shortterm" /\ now - r.created_at >= short_term_expire_sec
    \/ r.memory_type = "history" /\ now - r.created_at >= history_expire_sec

\* faulty variant: age measured from last_access instead of created_at
Expired_ByLastAccess(r, now) ==
    \/ r.memory_type = "shortterm" /\ now - r.last_access > short_term_expire_sec
    \/ r.memory_type = "history" /\ now - r.last_access > history_expire_sec

\* faulty variant: every type expires after the short-term window
Expired_AnyType(r, now) ==
    \/ now - r.created_at > short_term_expire_sec
    \/ r.memory_type = "history" /\ now - r.created_at > history_expire_sec

\* rule 1 of _prune_user_memory
Expired(r, now) ==
    \/ r.memory_type = "shortterm" /\ now - r.created_at > short_term_expire_sec
    \/ r.memory_type = "history" /\ now - r.created_at > history_expire_sec

\* faulty variant: the slice takes one record more than the excess
CapacityVictims_OneMore(survivors) ==
    LET sorted == Vals(StableSort([i \in 1..Len(survivors) |->
                        [key |-> survivors[i].importance, val |-> survivors[i]]]))
        excess == Len(survivors) - max_items_per_user
    IN  Ids(SubSeq(sorted, 1, excess + 1))

\* faulty variant: sorted descending, the highest-importance excess goes
CapacityVictims_Highest(survivors) ==
    LET sorted == Vals(StableSort([i \in 1..Len(survivors) |->
                        [key |-> 0 - survivors[i].importance, val |-> survivors[i]]]))
        excess == Len(survivors) - max_items_per_user
    IN  Ids(SubSeq(sorted, 1, excess))

\* rule 2 of _prune_user_memory: survivors sorted by importance, the first
\* excess of them
CapacityVictims(survivors) ==
    LET sorted == Vals(StableSort([i \in 1..Len(survivors) |->
                        [key |-> survivors[i].importance, val |-> survivors[i]]]))
        excess == Len(survivors) - max_items_per_user
    IN  Ids(SubSeq(sorted, 1, excess))

\* faulty variant: get() without the where filter, the pass covers every owner
PruneToDelete_AllOwners(s, u, now) ==
    LET expired == SelectSeq(s, LAMBDA r : Expired(r, now))
        survivors == SelectSeq(s, LAMBDA r : ~Expired(r, now))
    IN  IF Len(s) - Len(expired) > max_items_per_user
        THEN Ids(expired) \o CapacityVictims(survivors)
        ELSE Ids(expired)

\* faulty variant: rule 2 compares with >= and leaves one record too many
PruneToDelete_OffByOne(s, u, now) ==
    LET mine == OfUser(s, u)
        expired == SelectSeq(mine, LAMBDA r : Expired(r, now))
        survivors == SelectSeq(mine, LAMBDA r : ~Expired(r, now))
    IN  IF Len(mine) - Len(expired) > max_items_per_user + 1
        THEN Ids(expired) \o CapacityVictims(survivors)
        ELSE Ids(expired)

\* the list to_delete of _prune_user_memory
PruneToDelete(s, u, now) ==
    LET mine == OfUser(s, u)
        expired == SelectSeq(mine, LAMBDA r : Expired(r, now))
        survivors == SelectSeq(mine, LAMBDA r : ~Expired(r, now))
    IN  IF Len(mine) - Len(expired) > max_items_per_user
        THEN Ids(expired) \o CapacityVictims(survivors)
        ELSE Ids(expired)

\* the collection after _prune_user_memory(u) run at time now
PruneUserMemory(s, u, now) ==
    LET to_delete == Range(PruneToDelete(s, u, now))
    IN  SelectSeq(s, LAMBDA r : r.id \notin to_delete)

\* collection.query(where user_id, n_results): the n nearest items of the user
QueryIndex(s, u, query, n) ==
    LET mine == OfUser(s, u)
    IN  Take(Vals(StableSort([i \in 1..Len(mine) |->
                [key |-> Distance(query, mine[i].content), val |-> mine[i]]])), n)

\* faulty variant: recency read after last_access was set to now
Score_AfterBump(r, query, now) ==
    LET sim10 == 10 - Distance(query, r.content)
        recencyNum == DAY - Min(DAY, now - now)
    IN  W_SIM * sim10 * DAY + W_RECENCY * 10 * recencyNum
        + W_IMPORTANCE * r.importance * DAY

\* weighted_score, times 100 * DAY
Score(r, query, now) ==
    LET sim10 == 10 - Distance(query, r.content)
        recencyNum == DAY - Min(DAY, now - r.last_access)
    IN  W_SIM * sim10 * DAY + W_RECENCY * 10 * recencyNum
        + W_IMPORTANCE * r.importance * DAY

\* the list processed, before the sort; meta is the dict that is bumped
Processed(cands, query, now) ==
    [i \in 1..Len(cands) |->
        [id |-> cands[i].id,
         content |-> cands[i].content,
         metadata |-> [cands[i] EXCEPT !.last_access = now],
         score |-> Score(cands[i], query, now)]]

\* faulty variant: sorted ascending (reverse=True forgotten)
TopN_Ascending(proc, limit) ==
    Take(Vals(StableSort([i \in 1..Len(proc) |->
                [key |-> proc[i].score, val |-> proc[i]]])), limit)

\* processed.sort(key=score, reverse=True)[:limit]
TopN(proc, limit) ==
    Take(Vals(StableSort([i \in 1..Len(proc) |->
                [key |-> 0 - proc[i].score, val |-> proc[i]]])), limit)

\* faulty variant: the update also restarts the record's age
BumpLastAccess_ResetCreated(s, ids, now) ==
    [i \in 1..Len(s) |->
        IF s[i].id \in ids
        THEN [s[i] EXCEPT !.last_access = now, !.created_at = now] ELSE s[i]]

\* faulty variant: meta is changed in memory only, collection.update is missing
BumpLastAccess_NotPersisted(s, ids, now) == s

\* collection.update(ids=[mid], metadatas=[meta]) for every candidate
BumpLastAccess(s, ids, now) ==
    [i \in 1..Len(s) |->
        IF s[i].id \in ids THEN [s[i] EXCEPT !.last_access = now] ELSE s[i]]

\* faulty variant: get() without the where filter
ClearUser_All(s, u) == <<>>

\* faulty variant: the last id of the user is skipped
ClearUser_KeepLast(s, u) ==
    LET mine == OfUser(s, u)
    IN  SelectSeq(s, LAMBDA r : r.user_id # u \/ r.id = mine[Len(mine)].id)

\* clear_user_memory: delete every id that get(where user_id) returned
ClearUser(s, u) == SelectSeq(s, LAMBDA r : r.user_id # u)

\* ------------------------------------- MemoryManagerV2: calls from threads
NoArgs == [op |-> "none", user_id |-> "u1", content |-> "hello",
           memory_type |-> "history", tags |-> <<>>, importance |-> 0, limit |-> 0]

\* add_memory calls: every type and importance for u1's "hello", every
\* importance for u1's longterm "bye", one call for u2
AddArgs == [op : {"add"}, user_id : {"u1"}, content : {"hello"},
            memory_type : MemoryTypes, tags : TagChoices,
            importance : Importances, limit : {0}]
           \cup [op : {"add"}, user_id : {"u1"}, content : {"bye"},
            memory_type : {"longterm"}, tags : TagChoices,
            importance : Importances, limit : {0}]
           \cup [op : {"add"}, user_id : {"u2"}, content : {"hello"},
            memory_type : {"longterm"}, tags : TagChoices,
            importance : {DEFAULT_IMPORTANCE}, limit : {0}]

RetrieveArgs == [op : {"retrieve"}, user_id : Users, content : Contents,
                 memory_type : {"history"}, tags : {<<>>}, importance : {0},
                 limit : Limits]

ClearArgs == [op : {"clear"}, user_id : Users, content : {"hello"},
              memory_type : {"history"}, tags : {<<>>}, importance : {0},
              limit : {0}]

\* the locals of a thread that is in no call
Reset(t) ==
    /\ memory_id' = [memory_id EXCEPT ![t] = NoId]
    /\ prune_now' = [prune_now EXCEPT ![t] = 0]
    /\ items' = [items EXCEPT ![t] = <<>>]
    /\ now_l' = [now_l EXCEPT ![t] = 0]
    /\ processed' = [processed EXCEPT ![t] = <<>>]

\* a thread calls add_memory / retrieve_relevant_memories / clear_user_memory
Call(t) ==
    /\ pc[t] = "idle"
    /\ nops < MaxOps
    /\ \E a \in AddArgs \cup RetrieveArgs \cup ClearArgs :
          /\ args' = [args EXCEPT ![t] = a]
          /\ pc' = [pc EXCEPT ![t] = a.op \o "_lock"]
    /\ nops' = nops + 1
    /\ UNCHANGED <<collection, clock, lock, memory_id, prune_now, items,
                   now_l, processed, wvars, serial>>

\* faulty variant: the body is entered without waiting for the lock
Acquire_NoLock(t) ==
    /\ pc[t] \in {"add_lock", "retrieve_lock", "clear_lock"}
    /\ lock' = t
    /\ pc' = [pc EXCEPT ![t] = args[t].op \o "_body"]
    /\ UNCHANGED <<collection, clock, args, memory_id, prune_now, items,
                   now_l, processed, nops, wvars, serial>>

\* with self.lock: (entry)
Acquire(t) ==
    /\ pc[t] \in {"add_lock", "retrieve_lock", "clear_lock"}
    /\ lock = NoLock
    /\ lock' = t
    /\ pc' = [pc EXCEPT ![t] = args[t].op \o "_body"]
    /\ UNCHANGED <<collection, clock, args, memory_id, prune_now, items,
                   now_l, processed, nops, wvars, serial>>

\* faulty variant: the with block ends after collection.add
AddWrite_LockEnds(t) ==
    /\ pc[t] = "add_body"
    /\ LET a == args[t]
           r == NewRecord(a.user_id, a.content, a.memory_type, a.tags,
                          a.importance, clock)
       IN  /\ memory_id' = [memory_id EXCEPT ![t] = r.id]
           /\ collection' = CollectionAdd(collection, r)
    /\ pc' = [pc EXCEPT ![t] = "add_prune"]
    /\ lock' = NoLock
    /\ UNCHANGED <<clock, args, prune_now, items, now_l, processed,
                   nops, wvars, serial>>

\* add_memory: ts, memory_id, collection.add
AddWrite(t) ==
    /\ pc[t] = "add_body"
    /\ LET a == args[t]
           r == NewRecord(a.user_id, a.content, a.memory_type, a.tags,
                          a.importance, clock)
       IN  /\ memory_id' = [memory_id EXCEPT ![t] = r.id]
           /\ collection' = CollectionAdd(collection, r)
    /\ pc' = [pc EXCEPT ![t] = "add_prune"]
    /\ UNCHANGED <<clock, lock, args, prune_now, items, now_l, processed,
                   nops, wvars, serial>>

\* add_memory: self._prune_user_memory(user_id)
AddPrune(t) ==
    /\ pc[t] = "add_prune"
    /\ LET u == args[t].user_id
       IN  /\ items' = [items EXCEPT ![t] = OfUser(collection, u)]
           /\ IF OfUser(collection, u) = <<>>
              THEN UNCHANGED <<collection, prune_now>>
              ELSE /\ prune_now' = [prune_now EXCEPT ![t] = clock]
                   /\ collection' = PruneUserMemory(collection, u, clock)
    /\ processed' = [processed EXCEPT ![t] = <<memory_id[t]>>]
    /\ pc' = [pc EXCEPT ![t] = "add_ret"]
    /\ UNCHANGED <<clock, lock, args, memory_id, now_l, nops, wvars, serial>>

\* retrieve_relevant_memories: query, score, bump last_access, sort, cut
RetrieveBody(t) ==
    /\ pc[t] = "retrieve_body"
    /\ LET a == args[t]
           cands == QueryIndex(collection, a.user_id, a.content, a.limit * OVERFETCH)
       IN  /\ items' = [items EXCEPT ![t] = cands]
           /\ IF cands = <<>>
              THEN UNCHANGED <<collection, now_l, processed>>
              ELSE /\ now_l' = [now_l EXCEPT ![t] = clock]
                   /\ collection' = BumpLastAccess(collection, Range(Ids(cands)), clock)
                   /\ processed' = [processed EXCEPT ![t] =
                          TopN(Processed(cands, a.content, clock), a.limit)]
    /\ pc' = [pc EXCEPT ![t] = "retrieve_ret"]
    /\ UNCHANGED <<clock, lock, args, memory_id, prune_now, nops, wvars, serial>>

\* clear_user_memory: get(where user_id), delete each id
ClearBody(t) ==
    /\ pc[t] = "clear_body"
    /\ items' = [items EXCEPT ![t] = OfUser(collection, args[t].user_id)]
    /\ collection' = ClearUser(collection, args[t].user_id)
    /\ pc' = [pc EXCEPT ![t] = "clear_ret"]
    /\ UNCHANGED <<clock, lock, args, memory_id, prune_now, now_l, processed,
                   nops, wvars, serial>>

\* the call of thread t run alone on the collection s, at the times t read
\* the clock
SerialApply(s, t) ==
    LET a == args[t]
    IN  CASE a.op = "add" ->
               PruneUserMemory(
                   CollectionAdd(s, NewRecord(a.user_id, a.content, a.memory_type,
                                              a.tags, a.importance, memory_id[t][2])),
                   a.user_id, prune_now[t])
          [] a.op = "retrieve" ->
               LET cands == QueryIndex(s, a.user_id, a.content, a.limit * OVERFETCH)
               IN  IF cands = <<>> THEN s
                   ELSE BumpLastAccess(s, Range(Ids(cands)), now_l[t])
          [] a.op = "clear" -> ClearUser(s, a.user_id)
          [] OTHER -> s

\* the with block is left and the call returns
Return(t) ==
    /\ pc[t] \in {"add_ret", "retrieve_ret", "clear_ret"}
    /\ lock' = NoLock
    /\ pc' = [pc EXCEPT ![t] = "idle"]
    /\ args' = [args EXCEPT ![t] = NoArgs]
    /\ Reset(t)
    /\ serial' = SerialApply(serial, t)
    /\ UNCHANGED <<collection, clock, nops, wvars>>

\* a second passes
Tick ==
    /\ clock < MaxTime
    /\ clock' = clock + 1
    /\ UNCHANGED <<collection, lock, pc, args, memory_id, prune_now, items,
                   now_l, processed, nops, wvars, serial>>

\* =========================================================== legacy store
RELEVANT_MEMORIES_COUNT == 3
DEFAULT_LIMIT == 5

\* return values: None, a record id, a list of scored records, a bool, the
\* raw result dict of a legacy query
None == [tag |-> "None"]
IdVal(id) == [tag |-> "id", id |-> id]
ListVal(l) == [tag |-> "list", list |-> l]
BoolVal(b) == [tag |-> "bool", bool |-> b]
RawVal(docs) == [tag |-> "raw", documents |-> docs]

\* the outcome of one backend call: a return value or an exception, and the
\* two stores as the call leaves them
Returns(v, coll, st) ==
    [raised |-> FALSE, exc |-> "none", val |-> v, coll |-> coll, store |-> st]
Raises(e, coll, st) ==
    [raised |-> TRUE, exc |-> e, val |-> None, coll |-> coll, store |-> st]

\* names an instance of MemoryManagerV2 / MemoryManager has, and the names
\* the module memory_manager.py defines
V2Attrs == {"add_memory", "retrieve_relevant_memories", "clear_user_memory",
            "client", "collection", "lock", "max_items_per_user",
            "short_term_expire_sec", "history_expire_sec", "_prune_user_memory"}
V1Attrs == {"add_memory", "retrieve_relevant_memories", "set_collection_by_name",
            "check_memory_relevance", "clean_up_memory", "chroma_client",
            "embedding_model", "collection_name", "collection",
            "_get_or_create_collection"}
V1ModAttrs == {"datetime", "time", "Config", "Memory", "MemoryManager"}

\* number of positional arguments of a wrapper call
NArgs(a) == Len(a.shape)

\* datetime.datetime.now().isoformat(): the local time as text, and
\* datetime.datetime.fromisoformat(text).timestamp(): the text read back
IsoFormat(ts) == <<"iso", ts>>
FromIsoFormat(text) == text[2]

\* MemoryManager.add_memory(user_msg, assistant_msg, state); fail: the
\* embedding model or the index raises
V1AddMemory(a, fail) ==
    IF NArgs(a) # 3 THEN Raises("TypeError", collection, v1_store)
    ELSE IF v1_collection_name = NoName THEN Returns(None, collection, v1_store)
    ELSE IF fail THEN Raises("BackendError", collection, v1_store)
    ELSE LET doc == [id |-> <<"memory", clock, nops>>,
                     document |-> <<a.user_id, a.content, a.third>>,
                     metadata |-> [timestamp |-> IsoFormat(clock), user_msg |-> a.user_id,
                                   assistant_msg |-> a.content, state |-> a.third]]
         IN  Returns(None, collection,
                     [v1_store EXCEPT ![v1_collection_name] = Append(@, doc)])

\* MemoryManager.retrieve_relevant_memories(query, n_results=3): the raw
\* hits of the bound collection; a caller passing (user_id, query) binds the
\* query text to n_results, which the index rejects
V1Retrieve(a, fail) ==
    IF NArgs(a) > 2 THEN Raises("TypeError", collection, v1_store)
    ELSE IF v1_collection_name = NoName THEN Returns(RawVal(<<>>), collection, v1_store)
    ELSE IF fail THEN Raises("BackendError", collection, v1_store)
    ELSE IF NArgs(a) = 2 THEN Raises("ValueError", collection, v1_store)
    ELSE Returns(RawVal(Take(v1_store[v1_collection_name], RELEVANT_MEMORIES_COUNT)),
                 collection, v1_store)

\* a call of a name the module memory_manager.py defines: none of them is a
\* function of the uniform contract
V1ModCall(op, a) == Raises("TypeError", collection, v1_store)

\* ================================== MemoryManagerV2 called by the wrapper
\* self._v2.add_memory(*args): user_id, content, memory_type="history",
\* tags=None, importance=0.3; fail: the index raises in collection.add
V2AddMemory(a, fail) ==
    IF ~w_v2 THEN Raises("AttributeError", collection, v1_store)
    ELSE IF NArgs(a) < 2 THEN Raises("TypeError", collection, v1_store)
    ELSE IF fail THEN Raises("BackendError", collection, v1_store)
    ELSE LET r == NewRecord(a.user_id, a.content,
                            IF NArgs(a) >= 3 THEN a.third ELSE "history",
                            <<>>, DEFAULT_IMPORTANCE, clock)
         IN  Returns(IdVal(r.id),
                     PruneUserMemory(CollectionAdd(collection, r), a.user_id, clock),
                     v1_store)

\* self._v2.retrieve_relevant_memories(*args): user_id, query, limit=5
V2Retrieve(a, fail) ==
    IF ~w_v2 THEN Raises("AttributeError", collection, v1_store)
    ELSE IF NArgs(a) < 2 THEN Raises("TypeError", collection, v1_store)
    ELSE IF fail THEN Raises("BackendError", collection, v1_store)
    ELSE LET limit == IF NArgs(a) >= 3 THEN a.limit ELSE DEFAULT_LIMIT
             cands == QueryIndex(collection, a.user_id, a.content, limit * OVERFETCH)
         IN  IF cands = <<>> THEN Returns(ListVal(<<>>), collection, v1_store)
             ELSE Returns(ListVal(TopN(Processed(cands, a.content, clock), limit)),
                          BumpLastAccess(collection, Range(Ids(cands)), clock),
                          v1_store)

\* self._v2.clear_user_memory(*args): user_id; the method has no return value
V2Clear(a, fail) ==
    IF ~w_v2 THEN Raises("AttributeError", collection, v1_store)
    ELSE IF fail THEN Raises("BackendError", collection, v1_store)
    ELSE Returns(None, ClearUser(collection, a.user_id), v1_store)

\* ================================================= MemoryManagerWrapper
\* faulty variant: _force_v1 is not looked at
UseV2_IgnoreForceV1 ==
    IF force_v2 THEN TRUE
    ELSE w_v2

\* _use_v2
UseV2 ==
    IF force_v1 THEN FALSE
    ELSE IF force_v2 THEN TRUE
    ELSE w_v2

\* faulty variant: catches index failures only
Catches_BackendErrorOnly(exc) == exc = "BackendError"

\* except Exception: every exception a backend call raises is an Exception
Catches(exc) == exc \in {"AttributeError", "TypeError", "ValueError", "BackendError"}

\* faulty variant: the method ends without its last return statement
Dispatch_NoNeutral(op, has2, r2, r1, rm, neutral) ==
    LET try2 == UseV2 /\ has2
        pre == IF try2 /\ w_v2 THEN <<"v2">> ELSE <<>>
        coll2 == IF try2 THEN r2.coll ELSE collection
    IN  IF try2 /\ ~r2.raised
        THEN [trace |-> pre, raised |-> FALSE, val |-> r2.val,
              coll |-> coll2, store |-> v1_store, failed |-> FALSE]
        ELSE IF try2 /\ ~Catches(r2.exc)
        THEN [trace |-> pre, raised |-> TRUE, val |-> None,
              coll |-> coll2, store |-> v1_store, failed |-> pre # <<>>]
        ELSE IF w_v1 /\ op \in V1Attrs
        THEN [trace |-> pre \o <<"v1">>,
              raised |-> r1.raised /\ ~Catches(r1.exc),
              val |-> IF r1.raised THEN neutral ELSE r1.val,
              coll |-> coll2, store |-> r1.store,
              failed |-> pre # <<>> \/ r1.raised]
        ELSE IF w_v1_mod /\ op \in V1ModAttrs
        THEN [trace |-> pre \o <<"v1_mod">>,
              raised |-> rm.raised /\ ~Catches(rm.exc),
              val |-> IF rm.raised THEN neutral ELSE rm.val,
              coll |-> coll2, store |-> rm.store,
              failed |-> pre # <<>> \/ rm.raised]
        ELSE [trace |-> pre, raised |-> FALSE, val |-> None,
              coll |-> coll2, store |-> v1_store, failed |-> pre # <<>>]

\* faulty variant: a legacy call that was selected and failed is retried on v2
Dispatch_RetryAdvanced(op, has2, r2, r1, rm, neutral) ==
    LET try2 == UseV2 /\ has2
        pre == IF try2 /\ w_v2 THEN <<"v2">> ELSE <<>>
        coll2 == IF try2 THEN r2.coll ELSE collection
    IN  IF try2 /\ ~r2.raised
        THEN [trace |-> pre, raised |-> FALSE, val |-> r2.val,
              coll |-> coll2, store |-> v1_store, failed |-> FALSE]
        ELSE IF try2 /\ ~Catches(r2.exc)
        THEN [trace |-> pre, raised |-> TRUE, val |-> None,
              coll |-> coll2, store |-> v1_store, failed |-> pre # <<>>]
        ELSE IF w_v1 /\ op \in V1Attrs
        THEN [trace |-> IF ~try2 /\ r1.raised /\ w_v2 /\ has2
                        THEN <<"v1", "v2">> ELSE pre \o <<"v1">>,
              raised |-> r1.raised /\ ~Catches(r1.exc),
              val |-> IF r1.raised
                      THEN (IF ~try2 /\ w_v2 /\ has2 /\ ~r2.raised
                            THEN r2.val ELSE neutral)
                      ELSE r1.val,
              coll |-> IF ~try2 /\ r1.raised /\ w_v2 /\ has2 THEN r2.coll ELSE coll2,
              store |-> r1.store,
              failed |-> pre # <<>> \/ r1.raised]
        ELSE IF w_v1_mod /\ op \in V1ModAttrs
        THEN [trace |-> pre \o <<"v1_mod">>,
              raised |-> rm.raised /\ ~Catches(rm.exc),
              val |-> IF rm.raised THEN neutral ELSE rm.val,
              coll |-> coll2, store |-> rm.store,
              failed |-> pre # <<>> \/ rm.raised]
        ELSE [trace |-> pre, raised |-> FALSE, val |-> neutral,
              coll |-> coll2, store |-> v1_store, failed |-> pre # <<>>]

\* faulty variant: a failure of v2 ends the call, v1 is not tried
Dispatch_NoFallback(op, has2, r2, r1, rm, neutral) ==
    LET try2 == UseV2 /\ has2
        pre == IF try2 /\ w_v2 THEN <<"v2">> ELSE <<>>
        coll2 == IF try2 THEN r2.coll ELSE collection
    IN  IF try2 /\ ~r2.raised
        THEN [trace |-> pre, raised |-> FALSE, val |-> r2.val,
              coll |-> coll2, store |-> v1_store, failed |-> FALSE]
        ELSE IF try2 /\ ~Catches(r2.exc)
        THEN [trace |-> pre, raised |-> TRUE, val |-> None,
              coll |-> coll2, store |-> v1_store, failed |-> pre # <<>>]
        ELSE IF try2
        THEN [trace |-> pre, raised |-> FALSE, val |-> neutral,
              coll |-> coll2, store |-> v1_store, failed |-> pre # <<>>]
        ELSE IF w_v1 /\ op \in V1Attrs
        THEN [trace |-> pre \o <<"v1">>,
              raised |-> r1.raised /\ ~Catches(r1.exc),
              val |-> IF r1.raised THEN neutral ELSE r1.val,
              coll |-> coll2, store |-> r1.store,
              failed |-> pre # <<>> \/ r1.raised]
        ELSE IF w_v1_mod /\ op \in V1ModAttrs
        THEN [trace |-> pre \o <<"v1_mod">>,
              raised |-> rm.raised /\ ~Catches(rm.exc),
              val |-> IF rm.raised THEN neutral ELSE rm.val,
              coll |-> coll2, store |-> rm.store,
              failed |-> pre # <<>> \/ rm.raised]
        ELSE [trace |-> pre, raised |-> FALSE, val |-> neutral,
              coll |-> coll2, store |-> v1_store, failed |-> pre # <<>>]

\* One uniform call.  op: the method name; has2: the v2 call is attempted
\* when v2 is selected; r2, r1, rm: the outcomes of the call on v2, on the
\* v1 instance and on the v1 module; neutral: the method's last return.
\* trace lists the backends that were invoked, failed tells that the first
\* of them raised.
Dispatch(op, has2, r2, r1, rm, neutral) ==
    LET try2 == UseV2 /\ has2
        pre == IF try2 /\ w_v2 THEN <<"v2">> ELSE <<>>
        coll2 == IF try2 THEN r2.coll ELSE collection
    IN  IF try2 /\ ~r2.raised
        THEN [trace |-> pre, raised |-> FALSE, val |-> r2.val,
              coll |-> coll2, store |-> v1_store, failed |-> FALSE]
        ELSE IF try2 /\ ~Catches(r2.exc)
        THEN [trace |-> pre, raised |-> TRUE, val |-> None,
              coll |-> coll2, store |-> v1_store, failed |-> pre # <<>>]
        ELSE IF w_v1 /\ op \in V1Attrs
        THEN [trace |-> pre \o <<"v1">>,
              raised |-> r1.raised /\ ~Catches(r1.exc),
              val |-> IF r1.raised THEN neutral ELSE r1.val,
              coll |-> coll2, store |-> r1.store,
              failed |-> pre # <<>> \/ r1.raised]
        ELSE IF w_v1_mod /\ op \in V1ModAttrs
        THEN [trace |-> pre \o <<"v1_mod">>,
              raised |-> rm.raised /\ ~Catches(rm.exc),
              val |-> IF rm.raised THEN neutral ELSE rm.val,
              coll |-> coll2, store |-> rm.store,
              failed |-> pre # <<>> \/ rm.raised]
        ELSE [trace |-> pre, raised |-> FALSE, val |-> neutral,
              coll |-> coll2, store |-> v1_store, failed |-> pre # <<>>]

\* item.startswith("_")
StartsWithUnderscore(item) ==
    item \in {"_prune_user_memory", "_get_or_create_collection", "_cache"}

\* faulty variant: v2 answers whenever it is present, _use_v2() is not asked
GetAttr_AnyPresent(item) ==
    IF StartsWithUnderscore(item) THEN "AttributeError"
    ELSE IF w_v2 /\ item \in V2Attrs THEN "v2"
    ELSE IF w_v1 /\ item \in V1Attrs THEN "v1"
    ELSE IF w_v1_mod /\ item \in V1ModAttrs THEN "v1_mod"
    ELSE "AttributeError"

\* __getattr__(item): the backend whose attribute answers, or AttributeError
GetAttr(item) ==
    IF StartsWithUnderscore(item) THEN "AttributeError"
    ELSE IF UseV2 /\ w_v2 /\ item \in V2Attrs THEN "v2"
    ELSE IF w_v1 /\ item \in V1Attrs THEN "v1"
    ELSE IF w_v1_mod /\ item \in V1ModAttrs THEN "v1_mod"
    ELSE "AttributeError"

\* the positional arguments of wrapper calls.  shape: u user_id, c content or
\* query, t memory_type / state, l limit, m memory id.
NoWArgs == [shape |-> "", user_id |-> "u1", content |-> "hello",
            third |-> "history", limit |-> 0]

WAddArgs == [shape : {"uc"}, user_id : {"u1"}, content : Contents,
             third : {"history"}, limit : {0}]
            \cup [shape : {"uct"}, user_id : {"u1"}, content : {"hello"},
                  third : {"longterm"}, limit : {0}]

WRetrieveArgs == [shape : {"c"}, user_id : {"u1"}, content : {"hello"},
                  third : {"history"}, limit : {0}]
                 \cup [shape : {"uc"}, user_id : {"u1"}, content : {"hello"},
                       third : {"history"}, limit : {0}]
                 \cup [shape : {"ucl"}, user_id : {"u1"}, content : {"hello"},
                       third : {"history"}, limit : {1}]

WClearArgs == [shape : {"u"}, user_id : {"u1"}, content : {"hello"},
               third : {"history"}, limit : {0}]

WDeleteArgs == [shape : {"m"}, user_id : {"u1"}, content : {"hello"},
                third : {"history"}, limit : {0}]

MaxWOps == 2
MaxWTime == 1

\* the record of a call: flag1, flag2 are the override flags when it was
\* made, failed tells that the first backend call of it raised,
\* failed_before that the first backend call of an earlier call raised
NoCall == [op |-> "none", args |-> NoWArgs, selected |-> "none", trace |-> <<>>,
           raised |-> FALSE, val |-> None, fail2 |-> FALSE, fail1 |-> FALSE,
           v1_name |-> NoName, flag1 |-> FALSE, flag2 |-> FALSE,
           failed |-> FALSE, failed_before |-> FALSE]

\* the uniform calls
UniformOps == {"add_memory", "retrieve_relevant_memories", "clear_user_memory",
               "delete_memory"}


\* failures the environment can inject into a backend that is present
Fail2Choices ==
    IF UseV2 /\ w_v2 THEN (IF v2_broken THEN {TRUE} ELSE BOOLEAN) ELSE {FALSE}
Fail1Choices == IF w_v1 THEN BOOLEAN ELSE {FALSE}

\* the body of a uniform wrapper call, under self._lock
WCall(op, a, f2, f1, o) ==
    /\ nops < MaxWOps
    /\ nops' = nops + 1
    /\ collection' = o.coll
    /\ v1_store' = o.store
    /\ w_last' = [op |-> op, args |-> a,
                  selected |-> IF UseV2 THEN "v2" ELSE "v1",
                  trace |-> o.trace, raised |-> o.raised, val |-> o.val,
                  fail2 |-> f2, fail1 |-> f1, v1_name |-> v1_collection_name,
                  flag1 |-> force_v1, flag2 |-> force_v2,
                  failed |-> o.failed,
                  failed_before |-> w_last.failed_before \/ w_last.failed]
    /\ UNCHANGED <<clock, lock, pc, args, memory_id, prune_now, items, now_l,
                   processed, serial, w_v2, w_v1, w_v1_mod, force_v1, force_v2,
                   v1_collection_name, v2_broken, cvars>>

\* MemoryManagerWrapper.add_memory
WAddMemory ==
    \E a \in WAddArgs : \E f2 \in Fail2Choices : \E f1 \in Fail1Choices :
       WCall("add_memory", a, f2, f1,
             Dispatch("add_memory", TRUE, V2AddMemory(a, f2), V1AddMemory(a, f1),
                      V1ModCall("add_memory", a), None))

\* MemoryManagerWrapper.retrieve_relevant_memories
WRetrieve ==
    \E a \in WRetrieveArgs : \E f2 \in Fail2Choices : \E f1 \in Fail1Choices :
       WCall("retrieve_relevant_memories", a, f2, f1,
             Dispatch("retrieve_relevant_memories", TRUE, V2Retrieve(a, f2),
                      V1Retrieve(a, f1),
                      V1ModCall("retrieve_relevant_memories", a), ListVal(<<>>)))

\* MemoryManagerWrapper.clear_user_memory; MemoryManager has no such method
WClear ==
    \E a \in WClearArgs : \E f2 \in Fail2Choices : \E f1 \in Fail1Choices :
       WCall("clear_user_memory", a, f2, f1,
             Dispatch("clear_user_memory", TRUE, V2Clear(a, f2),
                      Raises("AttributeError", collection, v1_store),
                      V1ModCall("clear_user_memory", a), BoolVal(FALSE)))

\* MemoryManagerWrapper.delete_memory; neither backend has such a method
WDelete ==
    \E a \in WDeleteArgs : \E f2 \in Fail2Choices : \E f1 \in Fail1Choices :
       WCall("delete_memory", a, f2, f1,
             Dispatch("delete_memory", w_v2 /\ "delete_memory" \in V2Attrs,
                      Raises("AttributeError", collection, v1_store),
                      Raises("AttributeError", collection, v1_store),
                      V1ModCall("delete_memory", a), BoolVal(FALSE)))

\* MemoryManagerWrapper.force_use_v1(enable)
ForceUseV1 ==
    \E enable \in BOOLEAN :
       /\ force_v1' = enable
       /\ force_v2' = IF enable THEN FALSE ELSE force_v2
       /\ UNCHANGED <<svars, w_v2, w_v1, w_v1_mod, v1_collection_name,
                      v1_store, w_last, v2_broken, cvars>>

\* faulty variant: enabling the override constructs the advanced backend anew
ForceUseV2_Rebuild ==
    \E enable \in BOOLEAN :
       /\ force_v2' = enable
       /\ force_v1' = IF enable THEN FALSE ELSE force_v1
       /\ w_v2' = (w_v2 \/ enable)
       /\ UNCHANGED <<svars, w_v1, w_v1_mod, v1_collection_name,
                      v1_store, w_last, v2_broken, cvars>>

\* MemoryManagerWrapper.force_use_v2(enable)
ForceUseV2 ==
    \E enable \in BOOLEAN :
       /\ force_v2' = enable
       /\ force_v1' = IF enable THEN FALSE ELSE force_v1
       /\ UNCHANGED <<svars, w_v2, w_v1, w_v1_mod, v1_collection_name,
                      v1_store, w_last, v2_broken, cvars>>

\* a second passes between wrapper calls
WTick ==
    /\ clock < MaxWTime
    /\ clock' = clock + 1
    /\ UNCHANGED <<collection, lock, pc, args, memory_id, prune_now, items,
                   now_l, processed, nops, serial, wvars>>

\* wrapper.set_collection_by_name(name): not a method of the wrapper, so
\* __getattr__ resolves it; MemoryManager.set_collection_by_name binds the
\* legacy store to the named collection
WSetCollection ==
    /\ GetAttr("set_collection_by_name") = "v1"
    /\ \E n \in CollectionNames : v1_collection_name' = n
    /\ UNCHANGED <<svars, w_v2, w_v1, w_v1_mod, force_v1, force_v2, v1_store,
                   w_last, v2_broken, cvars>>

\* the dict health_check returns
HealthVal(v2ok, v1ok, active) ==
    [tag |-> "health", v2 |-> v2ok, v1 |-> v1ok, active |-> active,
     errors |-> <<>>]

\* faulty variant: res["v2"] set without the test self._v2 is not None
HealthCheck_V2AlwaysOk ==
    HealthVal(TRUE,
              \/ w_v1 /\ "retrieve_relevant_memories" \in V1Attrs
              \/ w_v1_mod /\ "retrieve_relevant_memories" \in V1ModAttrs,
              IF UseV2 THEN "v2" ELSE "v1")

\* faulty variant: res["v1"] set as soon as the v1 module was loaded
HealthCheck_V1ByModule ==
    HealthVal(w_v2, w_v1 \/ w_v1_mod, IF UseV2 THEN "v2" ELSE "v1")

\* health_check: v2 is reported when the instance exists (reading its
\* attribute collection cannot raise), v1 when the instance, or else the
\* module, has retrieve_relevant_memories; active is _use_v2()
HealthCheck ==
    HealthVal(w_v2,
              \/ w_v1 /\ "retrieve_relevant_memories" \in V1Attrs
              \/ w_v1_mod /\ "retrieve_relevant_memories" \in V1ModAttrs,
              IF UseV2 THEN "v2" ELSE "v1")

\* a call that is no uniform call, recorded
OtherCall(op, val, raised) ==
    [NoCall EXCEPT !.op = op, !.val = val, !.raised = raised,
                   !.selected = IF UseV2 THEN "v2" ELSE "v1",
                   !.v1_name = v1_collection_name,
                   !.flag1 = force_v1, !.flag2 = force_v2,
                   !.failed_before = w_last.failed_before \/ w_last.failed]

\* MemoryManagerWrapper.health_check()
WHealth ==
    /\ w_last' = OtherCall("health_check", HealthCheck, FALSE)
    /\ UNCHANGED <<svars, w_v2, w_v1, w_v1_mod, force_v1, force_v2,
                   v1_collection_name, v1_store, v2_broken, cvars>>

\* the names asked of the wrapper: one both stores have, one only v2, one only
\* v1, one only the v1 module, a private one, and one nobody has
AttrItems == {"collection", "lock", "set_collection_by_name", "Memory",
              "_prune_user_memory", "retrieve"}

\* getattr(wrapper, item) for a name the wrapper class does not define
WGetAttr ==
    \E item \in AttrItems :
       /\ w_last' = OtherCall("__getattr__",
                              [tag |-> "attr", item |-> item, backend |-> GetAttr(item)],
                              GetAttr(item) = "AttributeError")
       /\ UNCHANGED <<svars, w_v2, w_v1, w_v1_mod, force_v1, force_v2,
                      v1_collection_name, v1_store, v2_broken, cvars>>

\* ------------------------------------------ PromptBuilder over the wrapper
\* the text build_memory_context returns: the empty string, or the header
\* followed by one line "- m" per memory
MemorySection(memories) ==
    IF memories = <<>> THEN [tag |-> "str", text |-> "", memories |-> <<>>]
    ELSE [tag |-> "str", text |-> "section", memories |-> memories]

\* self.memory_mgr.retrieve(user_query) on the backend that answers the
\* name retrieve, called with the query alone
BackendRetrieve(backend, a) ==
    LET r == IF backend = "v2" THEN V2Retrieve(a, v2_broken) ELSE V1Retrieve(a, FALSE)
    IN  [raised |-> r.raised,
         memories |-> IF r.raised THEN <<>>
                      ELSE IF r.val.tag = "list" THEN r.val.list
                      ELSE r.val.documents]

\* PromptBuilder.build_memory_context(user_query) with memory_mgr the
\* wrapper: retrieve is no method of the wrapper, so __getattr__ resolves it;
\* every exception is caught and leaves memories = []
BuildMemoryContext(a) ==
    LET backend == GetAttr("retrieve")
        memories == IF backend \in {"AttributeError", "v1_mod"} THEN <<>>
                    ELSE BackendRetrieve(backend, a).memories
    IN  MemorySection(memories)

\* prompt_builder.build_memory_context(user_query)
WBuildMemoryContext ==
    /\ \E a \in [shape : {"c"}, user_id : {"u1"}, content : {"hello"},
                 third : {"history"}, limit : {0}] :
          w_last' = [OtherCall("build_memory_context", BuildMemoryContext(a), FALSE)
                        EXCEPT !.args = a]
    /\ UNCHANGED <<svars, w_v2, w_v1, w_v1_mod, force_v1, force_v2,
                   v1_collection_name, v1_store, v2_broken, cvars>>

InitStore ==
    /\ collection = <<>>
    /\ clock = 0
    /\ lock = NoLock
    /\ pc = [t \in Threads |-> "idle"]
    /\ args = [t \in Threads |-> NoArgs]
    /\ memory_id = [t \in Threads |-> NoId]
    /\ prune_now = [t \in Threads |-> 0]
    /\ items = [t \in Threads |-> <<>>]
    /\ now_l = [t \in Threads |-> 0]
    /\ processed = [t \in Threads |-> <<>>]
    /\ nops = 0
    /\ serial = <<>>

\* no thread is inside a wrapper call
InitLocks ==
    /\ w_lock = NoLock
    /\ wpc = [t \in Threads |-> "none"]
    /\ f_enable = [t \in Threads |-> FALSE]

Init ==
    /\ InitStore
    /\ w_v2 = TRUE
    /\ w_v1 = FALSE
    /\ w_v1_mod = FALSE
    /\ force_v1 = FALSE
    /\ force_v2 = FALSE
    /\ v1_collection_name = NoName
    /\ v1_store = [n \in CollectionNames |-> <<>>]
    /\ w_last = NoCall
    /\ v2_broken = FALSE
    /\ InitLocks

Next ==
    \/ \E t \in Threads : Call(t)
    \/ \E t \in Threads : Acquire(t)
    \/ \E t \in Threads : AddWrite(t)
    \/ \E t \in Threads : AddPrune(t)
    \/ \E t \in Threads : RetrieveBody(t)
    \/ \E t \in Threads : ClearBody(t)
    \/ \E t \in Threads : Return(t)
    \/ Tick

\* MemoryManagerV2 called directly by concurrent threads
Spec == Init /\ [][Next]_vars

\* MemoryManagerWrapper.__init__: v2 and v1 each loaded or not; a v1 instance
\* needs the v1 module; the instance is built without a collection name
InitW ==
    /\ InitStore
    /\ w_v2 \in BOOLEAN
    /\ w_v1_mod \in BOOLEAN
    /\ w_v1 \in {b \in BOOLEAN : b => w_v1_mod}
    /\ force_v1 = FALSE
    /\ force_v2 = FALSE
    /\ v1_collection_name = NoName
    /\ v1_store = [n \in CollectionNames |-> <<>>]
    /\ w_last = NoCall
    /\ v2_broken \in {b \in BOOLEAN : b => w_v2}
    /\ InitLocks

NextW ==
    \/ WAddMemory
    \/ WRetrieve
    \/ WClear
    \/ WDelete
    \/ ForceUseV1
    \/ ForceUseV2
    \/ WSetCollection
    \/ WHealth
    \/ WGetAttr
    \/ WBuildMemoryContext
    \/ WTick

\* the wrapper over both stores, one caller
SpecW == InitW /\ [][NextW]_vars

\* ================================ concurrent callers of the wrapper
MaxCOps == 2

\* the calls threads make through the wrapper, with the arguments of
\* MemoryManagerV2's methods
CArgs ==
    [op : {"add"}, user_id : {"u1"}, content : {"hello"},
     memory_type : {"longterm", "history"}, tags : TagChoices,
     importance : {DEFAULT_IMPORTANCE}, limit : {0}]
    \cup [op : {"retrieve"}, user_id : {"u1"}, content : {"hello"},
          memory_type : {"history"}, tags : {<<>>}, importance : {0},
          limit : {1}]
    \cup [op : {"clear", "delete"}, user_id : {"u1"}, content : {"hello"},
          memory_type : {"history"}, tags : {<<>>}, importance : {0},
          limit : {0}]

\* the positional arguments *args the wrapper passes on
WArgsOf(a) ==
    [shape |-> CASE a.op = "add" -> "uct" [] a.op = "retrieve" -> "ucl"
                 [] a.op = "delete" -> "m" [] OTHER -> "u",
     user_id |-> a.user_id, content |-> a.content, third |-> a.memory_type,
     limit |-> a.limit]

\* the wrapper method of a call
WOpOf(a) ==
    CASE a.op = "add" -> "add_memory"
      [] a.op = "retrieve" -> "retrieve_relevant_memories"
      [] a.op = "delete" -> "delete_memory"
      [] OTHER -> "clear_user_memory"

\* a thread calls wrapper.add_memory / retrieve_relevant_memories /
\* clear_user_memory / delete_memory and reaches with self._lock:
CEnter(t) ==
    /\ pc[t] = "idle" /\ wpc[t] = "none"
    /\ nops < MaxCOps
    /\ \E a \in CArgs : args' = [args EXCEPT ![t] = a]
    /\ wpc' = [wpc EXCEPT ![t] = "w_lock"]
    /\ nops' = nops + 1
    /\ UNCHANGED <<collection, clock, lock, pc, memory_id, prune_now, items,
                   now_l, processed, serial, w_v2, w_v1, w_v1_mod, force_v1,
                   force_v2, v1_collection_name, v1_store, w_last, v2_broken,
                   w_lock, f_enable>>

\* a thread calls wrapper.force_use_v1(enable) / force_use_v2(enable)
CForceEnter(t) ==
    /\ pc[t] = "idle" /\ wpc[t] = "none"
    /\ nops < MaxCOps
    /\ \E which \in {"f1_lock", "f2_lock"} : wpc' = [wpc EXCEPT ![t] = which]
    /\ \E enable \in BOOLEAN : f_enable' = [f_enable EXCEPT ![t] = enable]
    /\ nops' = nops + 1
    /\ UNCHANGED <<collection, clock, lock, pc, args, memory_id, prune_now,
                   items, now_l, processed, serial, w_v2, w_v1, w_v1_mod,
                   force_v1, force_v2, v1_collection_name, v1_store, w_last,
                   v2_broken, w_lock>>

\* with self._lock: (entry); the RLock is free or held by the same thread
CLock(t) ==
    /\ wpc[t] \in {"w_lock", "f1_lock", "f2_lock"}
    /\ w_lock \in {NoLock, t}
    /\ w_lock' = t
    /\ wpc' = [wpc EXCEPT ![t] = CASE wpc[t] = "w_lock" -> "w_select"
                                   [] wpc[t] = "f1_lock" -> "f1_set"
                                   [] OTHER -> "f2_set"]
    /\ UNCHANGED <<svars, w_v2, w_v1, w_v1_mod, force_v1, force_v2,
                   v1_collection_name, v1_store, w_last, v2_broken, f_enable>>

\* faulty variant: the wrapper lock is given up before the store is called
CSelect_Unlocked(t) ==
    /\ wpc[t] = "w_select"
    /\ IF UseV2 /\ w_v2 /\ WOpOf(args[t]) \in V2Attrs
       THEN /\ pc' = [pc EXCEPT ![t] = args[t].op \o "_lock"]
            /\ wpc' = [wpc EXCEPT ![t] = "w_in_v2"]
            /\ w_lock' = NoLock
       ELSE /\ wpc' = [wpc EXCEPT ![t] = "w_v1"]
            /\ UNCHANGED <<pc, w_lock>>
    /\ UNCHANGED <<collection, clock, lock, args, memory_id, prune_now, items,
                   now_l, processed, nops, serial, w_v2, w_v1, w_v1_mod,
                   force_v1, force_v2, v1_collection_name, v1_store, w_last,
                   v2_broken, f_enable>>

\* if self._use_v2(): self._v2.<method>(*args) is entered, the thread
\* reaches with self.lock: of the store; otherwise, when self._v2 is None,
\* and when the store has no such method (delete_memory), the legacy part of
\* the method is next
CSelect(t) ==
    /\ wpc[t] = "w_select"
    /\ IF UseV2 /\ w_v2 /\ WOpOf(args[t]) \in V2Attrs
       THEN /\ pc' = [pc EXCEPT ![t] = args[t].op \o "_lock"]
            /\ wpc' = [wpc EXCEPT ![t] = "w_in_v2"]
       ELSE /\ wpc' = [wpc EXCEPT ![t] = "w_v1"]
            /\ UNCHANGED pc
    /\ UNCHANGED <<collection, clock, lock, args, memory_id, prune_now, items,
                   now_l, processed, nops, serial, w_v2, w_v1, w_v1_mod,
                   force_v1, force_v2, v1_collection_name, v1_store, w_last,
                   v2_broken, w_lock, f_enable>>

\* faulty variant: the store lock is not released when the index raises
CStoreRaise_KeepLock(t) ==
    /\ wpc[t] = "w_in_v2"
    /\ pc[t] \in {"add_body", "add_prune", "retrieve_body", "clear_body"}
    /\ pc' = [pc EXCEPT ![t] = "idle"]
    /\ Reset(t)
    /\ wpc' = [wpc EXCEPT ![t] = "w_v1"]
    /\ UNCHANGED <<collection, clock, lock, args, nops, serial, w_v2, w_v1,
                   w_v1_mod, force_v1, force_v2, v1_collection_name, v1_store,
                   w_last, v2_broken, w_lock, f_enable>>

\* the index raises inside the store's with block: the store lock is
\* released by the with statement and the wrapper's except clause is reached
CStoreRaise(t) ==
    /\ wpc[t] = "w_in_v2"
    /\ pc[t] \in {"add_body", "add_prune", "retrieve_body", "clear_body"}
    /\ lock' = NoLock
    /\ pc' = [pc EXCEPT ![t] = "idle"]
    /\ Reset(t)
    /\ wpc' = [wpc EXCEPT ![t] = "w_v1"]
    /\ UNCHANGED <<collection, clock, args, nops, serial, w_v2, w_v1,
                   w_v1_mod, force_v1, force_v2, v1_collection_name, v1_store,
                   w_last, v2_broken, w_lock, f_enable>>

\* the store call returned its value to the wrapper, which returns it
\* (Return has reset the thread's arguments)
CAfterV2(t) ==
    /\ wpc[t] = "w_in_v2"
    /\ pc[t] = "idle"
    /\ wpc' = [wpc EXCEPT ![t] = "w_release"]
    /\ UNCHANGED <<svars, w_v2, w_v1, w_v1_mod, force_v1, force_v2,
                   v1_collection_name, v1_store, w_last, v2_broken, w_lock,
                   f_enable>>

\* the legacy part of a uniform method: the v1 instance's method if it has
\* one; MemoryManager takes no lock
CLegacy(t) ==
    /\ wpc[t] = "w_v1"
    /\ \E f1 \in Fail1Choices :
          LET a == WArgsOf(args[t])
              r1 == CASE args[t].op = "add" -> V1AddMemory(a, f1)
                      [] args[t].op = "retrieve" -> V1Retrieve(a, f1)
                      [] OTHER -> Raises("AttributeError", collection, v1_store)
          IN  v1_store' = IF w_v1 /\ WOpOf(args[t]) \in V1Attrs
                          THEN r1.store ELSE v1_store
    /\ wpc' = [wpc EXCEPT ![t] = "w_release"]
    /\ UNCHANGED <<svars, w_v2, w_v1, w_v1_mod, force_v1, force_v2,
                   v1_collection_name, w_last, v2_broken, w_lock, f_enable>>

\* force_use_v1 / force_use_v2: self._force_v1 = enable (self._force_v2 = enable)
CForceSet(t) ==
    /\ wpc[t] \in {"f1_set", "f2_set"}
    /\ IF wpc[t] = "f1_set"
       THEN force_v1' = f_enable[t] /\ UNCHANGED force_v2
       ELSE force_v2' = f_enable[t] /\ UNCHANGED force_v1
    /\ wpc' = [wpc EXCEPT ![t] =
                  IF ~f_enable[t] THEN "w_release"
                  ELSE IF wpc[t] = "f1_set" THEN "f1_clear" ELSE "f2_clear"]
    /\ UNCHANGED <<svars, w_v2, w_v1, w_v1_mod, v1_collection_name, v1_store,
                   w_last, v2_broken, w_lock, f_enable>>

\* faulty variant: the other flag is left as it is
CForceClear_Skip(t) ==
    /\ wpc[t] \in {"f1_clear", "f2_clear"}
    /\ wpc' = [wpc EXCEPT ![t] = "w_release"]
    /\ UNCHANGED <<svars, w_v2, w_v1, w_v1_mod, force_v1, force_v2,
                   v1_collection_name, v1_store, w_last, v2_broken, w_lock,
                   f_enable>>

\* force_use_v1 / force_use_v2: if enable: the other flag = False
CForceClear(t) ==
    /\ wpc[t] \in {"f1_clear", "f2_clear"}
    /\ IF wpc[t] = "f1_clear"
       THEN force_v2' = FALSE /\ UNCHANGED force_v1
       ELSE force_v1' = FALSE /\ UNCHANGED force_v2
    /\ wpc' = [wpc EXCEPT ![t] = "w_release"]
    /\ UNCHANGED <<svars, w_v2, w_v1, w_v1_mod, v1_collection_name, v1_store,
                   w_last, v2_broken, w_lock, f_enable>>

\* the with self._lock: block is left and the wrapper method returns
CRelease(t) ==
    /\ wpc[t] = "w_release"
    /\ w_lock' = NoLock
    /\ wpc' = [wpc EXCEPT ![t] = "none"]
    /\ args' = [args EXCEPT ![t] = NoArgs]
    /\ f_enable' = [f_enable EXCEPT ![t] = FALSE]
    /\ UNCHANGED <<collection, clock, lock, pc, memory_id, prune_now, items,
                   now_l, processed, nops, serial, w_v2, w_v1, w_v1_mod,
                   force_v1, force_v2, v1_collection_name, v1_store, w_last,
                   v2_broken>>

\* the calls threads make on the store directly, for another user
CDirectArgs ==
    [op : {"retrieve", "clear"}, user_id : {"u2"}, content : {"hello"},
     memory_type : {"history"}, tags : {<<>>}, importance : {0}, limit : {1}]
    \cup [op : {"add"}, user_id : {"u2"}, content : {"hello"},
          memory_type : {"longterm"}, tags : TagChoices,
          importance : {DEFAULT_IMPORTANCE}, limit : {0}]

\* a thread that is in no wrapper call calls the store directly
CDirect(t) ==
    /\ wpc[t] = "none"
    /\ pc[t] = "idle"
    /\ nops < MaxCOps
    /\ \E a \in CDirectArgs :
          /\ args' = [args EXCEPT ![t] = a]
          /\ pc' = [pc EXCEPT ![t] = a.op \o "_lock"]
    /\ nops' = nops + 1
    /\ UNCHANGED <<collection, clock, lock, memory_id, prune_now, items,
                   now_l, processed, serial, wvars>>

\* a wrapper over a working MemoryManagerV2, with or without a legacy
\* instance, before any call
InitC ==
    /\ InitStore
    /\ w_v2 = TRUE
    /\ w_v1_mod = TRUE
    /\ w_v1 \in BOOLEAN
    /\ force_v1 = FALSE
    /\ force_v2 = FALSE
    /\ v1_collection_name = NoName
    /\ v1_store = [n \in CollectionNames |-> <<>>]
    /\ w_last = NoCall
    /\ v2_broken = FALSE
    /\ InitLocks

NextC ==
    \/ \E t \in Threads : CEnter(t)
    \/ \E t \in Threads : CForceEnter(t)
    \/ \E t \in Threads : CLock(t)
    \/ \E t \in Threads : CSelect(t)
    \/ \E t \in Threads : Acquire(t)
    \/ \E t \in Threads : AddWrite(t)
    \/ \E t \in Threads : AddPrune(t)
    \/ \E t \in Threads : RetrieveBody(t)
    \/ \E t \in Threads : ClearBody(t)
    \/ \E t \in Threads : Return(t)
    \/ \E t \in Threads : CStoreRaise(t)
    \/ \E t \in Threads : CAfterV2(t)
    \/ \E t \in Threads : CLegacy(t)
    \/ \E t \in Threads : CForceSet(t)
    \/ \E t \in Threads : CForceClear(t)
    \/ \E t \in Threads : CRelease(t)
    \/ \E t \in Threads : CDirect(t)
    \/ WSetCollection
    \/ WTick

\* threads calling the wrapper, and the store directly, concurrently
SpecC == InitC /\ [][NextC]_vars

\* the steps a thread takes once it is inside a call: lock entries, bodies
\* and returns
ThreadStep(t) ==
    \/ CLock(t) \/ CSelect(t) \/ Acquire(t)
    \/ AddWrite(t) \/ AddPrune(t) \/ RetrieveBody(t) \/ ClearBody(t)
    \/ Return(t) \/ CAfterV2(t) \/ CLegacy(t)
    \/ CForceSet(t) \/ CForceClear(t) \/ CRelease(t)

\* a fair scheduler: a thread that can go on is not held back for ever
FairC == \A t \in Threads : WF_vars(ThreadStep(t))

\* SpecC under a fair scheduler, index calls terminating
SpecCFair == InitC /\ [][NextC]_vars /\ FairC

\* ================================================================ claims
\* ============================================ the legacy store called directly
MEMORY_EXPIRY_TIME == 2592000
MaxLOps == 3
MaxLWaits == 1

\* mood labels of the emotion state machine; clean_up_memory compares with "idle"
States == {"idle", "happy"}

\* messages; "shiwang" and "shengqi" stand for texts that contain the
\* markers of check_memory_relevance
UserMsgs == {"hello", "shiwang"}
AssistantMsgs == {"ok", "shengqi"}

LAddArgs == [shape : {"uct"}, user_id : UserMsgs, content : AssistantMsgs,
             third : States, limit : {0}]

\* Memory.is_expired at time now
IsExpired(memory, now) == now - memory.timestamp > MEMORY_EXPIRY_TIME

\* "失望" in memory.content or "生气" in memory.content: the content is the
\* document, made of the user message, the reply and the state
ContainsMarker(content) ==
    \E i \in 1..Len(content) : content[i] \in {"shiwang", "shengqi"}

\* faulty variant: the test for the two markers is missing
CheckMemoryRelevance_NoMarkers(memory, current_state, now) ==
    IF IsExpired(memory, now) THEN FALSE
    ELSE IF memory.state # current_state THEN FALSE
    ELSE TRUE

\* MemoryManager.check_memory_relevance
CheckMemoryRelevance(memory, current_state, now) ==
    IF IsExpired(memory, now) THEN FALSE
    ELSE IF ContainsMarker(memory.content) THEN FALSE
    ELSE IF memory.state # current_state THEN FALSE
    ELSE TRUE

\* the Memory object clean_up_memory builds for a stored item
TempMemory(doc) ==
    [memory_id |-> doc.id, content |-> doc.document,
     timestamp |-> FromIsoFormat(doc.metadata.timestamp),
     state |-> doc.metadata.state]

\* the ids clean_up_memory deletes when the index raises after upto items
\* (upto = number of items: no error)
CleanUpDeleted(docs, upto, now) ==
    {docs[i].id : i \in {j \in 1..upto :
                    ~CheckMemoryRelevance(TempMemory(docs[j]), "idle", now)}}

\* MemoryManager.set_collection_by_name(collection_name)
LSetCollection ==
    /\ \E n \in CollectionNames : v1_collection_name' = n
    /\ UNCHANGED <<svars, w_v2, w_v1, w_v1_mod, force_v1, force_v2, v1_store,
                   w_last, v2_broken, cvars>>

\* MemoryManager.add_memory(user_msg, assistant_msg, state)
LAddMemory ==
    /\ nops < MaxLOps
    /\ \E a \in LAddArgs : \E fail \in BOOLEAN :
          LET r == V1AddMemory(a, fail)
          IN  /\ v1_store' = r.store
              /\ w_last' = [NoCall EXCEPT !.op = "add_memory", !.args = a,
                                          !.raised = r.raised, !.failed = r.raised,
                                          !.v1_name = v1_collection_name]
    /\ nops' = nops + 1
    /\ UNCHANGED <<collection, clock, lock, pc, args, memory_id, prune_now,
                   items, now_l, processed, serial, w_v2, w_v1, w_v1_mod,
                   force_v1, force_v2, v1_collection_name, v2_broken, cvars>>

\* MemoryManager.clean_up_memory(), called while the conversation is in
\* state mood (the method takes no argument); an exception of the index ends
\* the loop and is swallowed
LCleanUp ==
    /\ nops < MaxLOps
    /\ \E mood \in States :
          IF v1_collection_name = NoName
          THEN /\ w_last' = [NoCall EXCEPT !.op = "clean_up_memory",
                                           !.args = [NoWArgs EXCEPT !.third = mood]]
               /\ UNCHANGED v1_store
          ELSE LET docs == v1_store[v1_collection_name]
               IN  \E upto \in 0..Len(docs) :
                      LET gone == CleanUpDeleted(docs, upto, clock)
                      IN  /\ v1_store' = [v1_store EXCEPT ![v1_collection_name] =
                                 SelectSeq(docs, LAMBDA d : d.id \notin gone)]
                          /\ w_last' = [NoCall EXCEPT
                                 !.op = "clean_up_memory",
                                 !.args = [NoWArgs EXCEPT !.third = mood],
                                 !.failed = upto < Len(docs),
                                 !.v1_name = v1_collection_name,
                                 !.val = ListVal(SelectSeq(Ids(docs),
                                                   LAMBDA id : id \in gone))]
    /\ nops' = nops + 1
    /\ UNCHANGED <<collection, clock, lock, pc, args, memory_id, prune_now,
                   items, now_l, processed, serial, w_v2, w_v1, w_v1_mod,
                   force_v1, force_v2, v1_collection_name, v2_broken, cvars>>

\* a second passes
LTick ==
    /\ clock % MEMORY_EXPIRY_TIME < MaxWTime
    /\ clock' = clock + 1
    /\ UNCHANGED <<collection, lock, pc, args, memory_id, prune_now, items,
                   now_l, processed, nops, serial, wvars>>

\* thirty days pass
LWait ==
    /\ clock \div MEMORY_EXPIRY_TIME < MaxLWaits
    /\ clock' = clock + MEMORY_EXPIRY_TIME
    /\ UNCHANGED <<collection, lock, pc, args, memory_id, prune_now, items,
                   now_l, processed, nops, serial, wvars>>

\* a MemoryManager built without a collection name, no wrapper in use
InitL ==
    /\ InitStore
    /\ w_v2 = FALSE
    /\ w_v1_mod = TRUE
    /\ w_v1 = TRUE
    /\ force_v1 = FALSE
    /\ force_v2 = FALSE
    /\ v1_collection_name = NoName
    /\ v1_store = [n \in CollectionNames |-> <<>>]
    /\ w_last = NoCall
    /\ v2_broken = FALSE
    /\ InitLocks

NextL ==
    \/ LSetCollection
    \/ LAddMemory
    \/ LCleanUp
    \/ LTick
    \/ LWait

\* the legacy store used directly by one caller
SpecL == InitL /\ [][NextL]_vars

\* ============================ chat requests sharing one legacy MemoryManager
MaxChatOps == 3

\* get_or_create_memory_collection: one collection per user, named after
\* the user's email
CollectionOf(user) == "memory_" \o user

ChatCollections == {CollectionOf(u) : u \in Users}

\* the arguments of the memory calls of a chat request
ChatRetrieveArgs(t) ==
    [NoWArgs EXCEPT !.shape = "c", !.content = args[t].content]
ChatAddArgs(t) ==
    [NoWArgs EXCEPT !.shape = "uct", !.user_id = args[t].content,
                    !.content = "ok", !.third = "idle"]

\* POST /chat with an email and a message: a request thread starts
\* _handle_chat_request
ChatRequest(t) ==
    /\ pc[t] = "idle"
    /\ nops < MaxChatOps
    /\ \E u \in Users : \E m \in Contents :
          args' = [args EXCEPT ![t] = [NoArgs EXCEPT !.op = "chat",
                                                     !.user_id = u, !.content = m]]
    /\ pc' = [pc EXCEPT ![t] = "chat_identity"]
    /\ nops' = nops + 1
    /\ UNCHANGED <<collection, clock, lock, memory_id, prune_now, items,
                   now_l, processed, serial, wvars>>

\* _handle_user_identity: memory_manager.set_collection_by_name(the user's
\* collection)
ChatIdentity(t) ==
    /\ pc[t] = "chat_identity"
    /\ v1_collection_name' = CollectionOf(args[t].user_id)
    /\ pc' = [pc EXCEPT ![t] = "chat_prompt"]
    /\ UNCHANGED <<collection, clock, lock, args, memory_id, prune_now, items,
                   now_l, processed, nops, serial, w_v2, w_v1, w_v1_mod,
                   force_v1, force_v2, v1_store, w_last, v2_broken, cvars>>

\* generate_chat_prompt: memory_manager.retrieve_relevant_memories(user_msg);
\* an exception of the index ends the request with status 500
ChatPrompt(t) ==
    /\ pc[t] = "chat_prompt"
    /\ \E fail \in BOOLEAN :
          LET r == V1Retrieve(ChatRetrieveArgs(t), fail)
          IN  IF r.raised
              THEN /\ pc' = [pc EXCEPT ![t] = "idle"]
                   /\ args' = [args EXCEPT ![t] = NoArgs]
                   /\ UNCHANGED items
              ELSE /\ pc' = [pc EXCEPT ![t] = "chat_reply"]
                   /\ items' = [items EXCEPT ![t] = r.val.documents]
                   /\ UNCHANGED args
    /\ UNCHANGED <<collection, clock, lock, memory_id, prune_now, now_l,
                   processed, nops, serial, wvars>>

\* ai_manager.get_ollama_response(prompt): the model answers
ChatReply(t) ==
    /\ pc[t] = "chat_reply"
    /\ pc' = [pc EXCEPT ![t] = "chat_add"]
    /\ UNCHANGED <<collection, clock, lock, args, memory_id, prune_now, items,
                   now_l, processed, nops, serial, wvars>>

\* memory_manager.add_memory(user_msg, ollama_response, new_state), then
\* the response is returned
ChatAdd(t) ==
    /\ pc[t] = "chat_add"
    /\ \E fail \in BOOLEAN :
          v1_store' = V1AddMemory(ChatAddArgs(t), fail).store
    /\ pc' = [pc EXCEPT ![t] = "idle"]
    /\ args' = [args EXCEPT ![t] = NoArgs]
    /\ items' = [items EXCEPT ![t] = <<>>]
    /\ UNCHANGED <<collection, clock, lock, memory_id, prune_now, now_l,
                   processed, nops, serial, w_v2, w_v1, w_v1_mod, force_v1,
                   force_v2, v1_collection_name, w_last, v2_broken, cvars>>

\* a ChatService over one MemoryManager built without a collection name
InitChat ==
    /\ InitStore
    /\ w_v2 = FALSE
    /\ w_v1_mod = TRUE
    /\ w_v1 = TRUE
    /\ force_v1 = FALSE
    /\ force_v2 = FALSE
    /\ v1_collection_name = NoName
    /\ v1_store = [n \in ChatCollections |-> <<>>]
    /\ w_last = NoCall
    /\ v2_broken = FALSE
    /\ InitLocks

NextChat ==
    \/ \E t \in Threads : ChatRequest(t)
    \/ \E t \in Threads : ChatIdentity(t)
    \/ \E t \in Threads : ChatPrompt(t)
    \/ \E t \in Threads : ChatReply(t)
    \/ \E t \in Threads : ChatAdd(t)
    \/ WTick

\* chat requests of several users handled by concurrent request threads
SpecChat == InitChat /\ [][NextChat]_vars

InAddSection(t) == pc[t] \in {"add_body", "add_prune", "add_ret"}

StoredIds == Range(Ids(collection))

\* the record's type has an expiry window and the record is older than it
AgedOut(r, now) ==
    LET age == now - r.created_at
    IN  \/ r.memory_type = "shortterm" /\ age > short_term_expire_sec
        \/ r.memory_type = "history" /\ age > history_expire_sec

\* C1: whenever no add is inside its critical section, every owner has at
\* most max_items_per_user records in the collection.
C1_CapacityBound ==
    (\A t \in Threads : ~InAddSection(t))
        => \A u \in Users : Len(OfUser(collection, u)) <= max_items_per_user

\* an owner sits exactly at the cap with no add in progress, after MaxOps calls
C1_Witness ==
    /\ \A t \in Threads : pc[t] = "idle"
    /\ nops = MaxOps
    /\ Len(OfUser(collection, "u1")) = max_items_per_user

IsPruneStep(t) == pc[t] = "add_prune" /\ pc'[t] = "add_ret"

IsClearStep(t) == pc[t] = "clear_body" /\ pc'[t] = "clear_ret"

Survivors(u, now) == SelectSeq(OfUser(collection, u), LAMBDA r : ~AgedOut(r, now))

\* r is among the lowest-importance excess of its owner's non-expired records
InLowestExcess(r, now) ==
    LET surv == Survivors(r.user_id, now)
        lower == {i \in 1..Len(surv) : surv[i].importance < r.importance}
    IN  /\ Len(surv) > max_items_per_user
        /\ Cardinality(lower) < Len(surv) - max_items_per_user

\* C3: a longterm / profile record leaves the collection only in a clear for
\* its owner, or in a pruning pass for its owner in which the non-expired
\* count exceeds the cap and the record is among the lowest-importance excess.
C3_DurableStep ==
    \A i \in 1..Len(collection) :
       LET r == collection[i]
       IN  (r.memory_type \in {"longterm", "profile"}
              /\ r.id \notin {collection'[j].id : j \in 1..Len(collection')})
           => \E t \in Threads :
                 /\ args[t].user_id = r.user_id
                 /\ \/ IsClearStep(t)
                    \/ IsPruneStep(t) /\ InLowestExcess(r, clock)

C3_DurableNeverAged == [][C3_DurableStep]_vars

\* a pruning pass evicted a longterm / profile record older than both windows
C3_Witness ==
    \E t \in Threads :
       /\ pc[t] = "add_ret"
       /\ \E i \in 1..Len(items[t]) :
             /\ items[t][i].memory_type \in {"longterm", "profile"}
             /\ prune_now[t] - items[t][i].created_at > short_term_expire_sec
             /\ items[t][i].id \notin StoredIds
       /\ \E i \in 1..Len(collection) :
             /\ collection[i].memory_type \in {"longterm", "profile"}
             /\ collection[i].user_id = args[t].user_id
             /\ prune_now[t] - collection[i].created_at > short_term_expire_sec

PairwiseDistinctImportance(s) ==
    \A i, j \in 1..Len(s) : i # j => s[i].importance # s[j].importance

\* C4: after a pruning pass over an owner whose records have pairwise
\* distinct importance, no evicted non-expired record has a higher
\* importance than a record of the owner that was kept.
C4_EvictionOrder ==
    \A t \in Threads :
       (pc[t] = "add_ret" /\ PairwiseDistinctImportance(items[t])) =>
          \A i \in 1..Len(items[t]) :
             (items[t][i].id \notin StoredIds /\ ~AgedOut(items[t][i], prune_now[t]))
                => \A j \in 1..Len(collection) :
                      collection[j].user_id = args[t].user_id
                         => items[t][i].importance <= collection[j].importance

\* a tie-free pass evicted a non-expired record that was not the newest one
C4_Witness ==
    \E t \in Threads :
       /\ pc[t] = "add_ret"
       /\ PairwiseDistinctImportance(items[t])
       /\ Len(items[t]) = max_items_per_user + 1
       /\ \A i \in 1..Len(items[t]) : ~AgedOut(items[t][i], prune_now[t])
       /\ memory_id[t] \in StoredIds
       /\ \E i \in 1..Len(items[t]) : items[t][i].id \notin StoredIds

\* C5: the sequence a retrieve returns has at most limit records and is
\* ordered by non-increasing weighted score.
C5_RetrieveSorted ==
    \A t \in Threads :
       pc[t] = "retrieve_ret" =>
          /\ Len(processed[t]) <= args[t].limit
          /\ \A i, j \in 1..Len(processed[t]) :
                i < j => processed[t][i].score >= processed[t][j].score

\* a retrieve returned two records in the opposite of the index's order
C5_Witness ==
    \E t \in Threads :
       /\ pc[t] = "retrieve_ret"
       /\ Len(processed[t]) = 2
       /\ processed[t][1].score > processed[t][2].score
       /\ processed[t][1].id = items[t][2].id

\* C6: when a retrieve has run at time now, every candidate the index
\* returned (at most 3 * limit records of the owner), returned to the caller
\* or not, has last_access = now in the collection.
C6_AllCandidatesBumped ==
    \A t \in Threads :
       pc[t] = "retrieve_ret" =>
          /\ Len(items[t]) <= OVERFETCH * args[t].limit
          /\ \A i \in 1..Len(items[t]) :
                /\ items[t][i].user_id = args[t].user_id
                /\ \E j \in 1..Len(collection) :
                      /\ collection[j].id = items[t][i].id
                      /\ collection[j].last_access = now_l[t]

\* a candidate that is not among the returned records was bumped
C6_Witness ==
    \E t \in Threads :
       /\ pc[t] = "retrieve_ret"
       /\ \E i \in 1..Len(items[t]) :
             /\ \A k \in 1..Len(processed[t]) : processed[t][k].id # items[t][i].id
             /\ items[t][i].last_access < now_l[t]
             /\ \E j \in 1..Len(collection) :
                   /\ collection[j].id = items[t][i].id
                   /\ collection[j].last_access = now_l[t]

\* C7: a clear for an owner leaves no record of that owner and leaves the
\* records of every other owner as they were.
C7_ClearStep ==
    \A t \in Threads :
       IsClearStep(t) =>
          /\ OfUser(collection', args[t].user_id) = <<>>
          /\ \A u \in Users \ {args[t].user_id} :
                OfUser(collection', u) = OfUser(collection, u)

C7_ClearFrame == [][C7_ClearStep]_vars

\* a clear deleted records of its owner while another owner had records
C7_Witness ==
    \E t \in Threads :
       /\ pc[t] = "clear_ret"
       /\ items[t] # <<>>
       /\ collection # <<>>

\* C8: a clear for an owner with no records completes and leaves the whole
\* collection unchanged.
C8_ClearEmptyStep ==
    \A t \in Threads :
       (pc[t] = "clear_body" /\ OfUser(collection, args[t].user_id) = <<>>) =>
          (pc'[t] # pc[t] => pc'[t] = "clear_ret" /\ collection' = collection)

C8_ClearIdempotent == [][C8_ClearEmptyStep]_vars

\* a clear found no record of its owner while the collection was not empty
C8_Witness ==
    \E t \in Threads :
       /\ pc[t] = "clear_ret"
       /\ items[t] = <<>>
       /\ collection # <<>>

\* C9: no uniform wrapper call (add, retrieve, clear, delete-one) lets an
\* exception out, whatever backends are present, whatever the override
\* flags, whichever backend calls fail.
C9_WrapperNeverRaises == w_last.op \in UniformOps => w_last.raised = FALSE

\* an add in which the advanced and then the legacy backend raised, and the
\* caller got None
C9_Witness ==
    /\ w_last.op = "add_memory"
    /\ w_last.args.shape = "uct"
    /\ w_last.trace = <<"v2", "v1">>
    /\ w_last.fail2
    /\ w_last.fail1
    /\ w_last.v1_name # NoName
    /\ w_last.val = None
    /\ ~w_last.raised

\* C10 (as claimed): when add(owner, content) finds the advanced backend
\* failing and a working legacy backend (an instance bound to a collection,
\* its index not failing), it returns an id made by the legacy backend and
\* the record is in the legacy store.
C10_FallbackAddReturnsId ==
    (/\ w_last.op = "add_memory"
     /\ w_last.args.shape = "uc"
     /\ w_last.selected = "v2"
     /\ w_last.fail2 \/ ~w_v2
     /\ w_v1
     /\ w_last.v1_name # NoName
     /\ ~w_last.fail1)
    => /\ w_last.val.tag = "id"
       /\ \E i \in 1..Len(v1_store[w_last.v1_name]) :
             v1_store[w_last.v1_name][i].metadata.assistant_msg = w_last.args.content

\* the value a uniform call returns when no backend answers
Neutral(op) ==
    CASE op = "add_memory" -> None
      [] op = "retrieve_relevant_memories" -> ListVal(<<>>)
      [] OTHER -> BoolVal(FALSE)

\* C11 (as claimed): with no override flag set, an advanced backend that is
\* absent or raises on every call, and a legacy instance, health_check
\* reports active = legacy and advanced_ok = false.
C11_Original ==
    (/\ w_last.op = "health_check"
     /\ ~w_last.flag1 /\ ~w_last.flag2
     /\ (~w_v2 \/ v2_broken)
     /\ w_v1)
        => w_last.val.active = "v1" /\ w_last.val.v2 = FALSE

\* C11 (amended): health_check reports active = legacy and advanced_ok =
\* false when the advanced instance is absent and force_advanced is not set;
\* an advanced instance that raises on every call is still reported
\* advanced_ok = true, and active = advanced unless force_legacy is set.
C11_HealthByPresence ==
    w_last.op = "health_check" =>
        /\ (~w_v2 /\ ~w_last.flag2)
              => w_last.val.active = "v1" /\ w_last.val.v2 = FALSE
        /\ (w_v2 /\ v2_broken /\ ~w_last.flag1)
              => w_last.val.active = "v2" /\ w_last.val.v2 = TRUE

C11_Witness ==
    /\ w_last.op = "health_check"
    /\ ~w_v2 /\ w_v1 /\ ~w_last.flag2
    /\ w_last.failed_before
    /\ w_last.val.active = "v1"

\* C12: with the advanced and the legacy instance both absent, under every
\* setting of the override flags, a uniform call returns its neutral value:
\* add None, retrieve the empty list, clear False, delete-one False.
C12_NoBackendNeutral ==
    (w_last.op \in UniformOps /\ ~w_v2 /\ ~w_v1)
        => ~w_last.raised /\ w_last.val = Neutral(w_last.op)

C12_Witness ==
    /\ w_last.op = "retrieve_relevant_memories"
    /\ ~w_v2 /\ ~w_v1 /\ ~w_v1_mod
    /\ w_last.flag2
    /\ w_last.val = ListVal(<<>>)

\* the legacy instance, or without one the legacy module, has the retrieval
\* operation
LegacyExposesRetrieve ==
    \/ w_v1 /\ "retrieve_relevant_memories" \in V1Attrs
    \/ w_v1_mod /\ "retrieve_relevant_memories" \in V1ModAttrs

\* C13: health_check reports advanced_ok only if the advanced instance is
\* present and legacy_ok only if the legacy instance or module exposes the
\* retrieval operation; with both absent both flags are false and nothing is
\* raised.
C13_HealthFlags ==
    w_last.op = "health_check" =>
        /\ w_last.val.v2 => w_v2
        /\ w_last.val.v1 => LegacyExposesRetrieve
        /\ (~w_v2 /\ ~w_v1 /\ ~w_v1_mod)
              => ~w_last.val.v2 /\ ~w_last.val.v1 /\ ~w_last.raised
                 /\ w_last.val.errors = <<>>

C13_Witness ==
    /\ w_last.op = "health_check"
    /\ w_v2 /\ ~w_v1 /\ w_v1_mod
    /\ w_last.val.v2 /\ ~w_last.val.v1

\* the backend the selection rule names for the recorded call
ExpectedBackend ==
    IF w_last.flag1 THEN "v1"
    ELSE IF w_last.flag2 THEN "v2"
    ELSE IF w_v2 THEN "v2" ELSE "v1"

\* C14: the backend a uniform call tries first follows from the flags and the
\* presence of the advanced instance at the time of the call (legacy if
\* force_legacy, else advanced if force_advanced, else advanced if present,
\* else legacy), whatever calls and failures came before.
C14_SelectionRule ==
    w_last.op \in UniformOps =>
        /\ w_last.selected = ExpectedBackend
        /\ (w_last.trace # <<>> /\ w_last.trace[1] = "v2")
              => ExpectedBackend = "v2"
        /\ (ExpectedBackend = "v2" /\ w_v2 /\ w_last.op \in V2Attrs)
              => w_last.trace # <<>> /\ w_last.trace[1] = "v2"

C14_Witness ==
    /\ w_last.op = "add_memory"
    /\ w_last.failed_before
    /\ w_v2 /\ w_v1
    /\ ~w_last.flag1 /\ ~w_last.flag2
    /\ w_last.selected = "v2"
    /\ w_last.trace = <<"v2">>

\* C16: a uniform call for which the selection rule names legacy never
\* invokes the advanced backend; if the legacy instance is absent or its
\* call fails, the call returns the neutral value.
C16_LegacySelectedNoAdvanced ==
    (w_last.op \in UniformOps /\ ExpectedBackend = "v1") =>
        /\ \A i \in 1..Len(w_last.trace) : w_last.trace[i] # "v2"
        /\ (~w_v1 \/ w_last.failed)
              => ~w_last.raised /\ w_last.val = Neutral(w_last.op)

C16_Witness ==
    /\ w_last.op = "retrieve_relevant_memories"
    /\ w_last.flag1
    /\ w_v2 /\ ~v2_broken /\ w_v1
    /\ w_last.failed
    /\ w_last.trace = <<"v1">>
    /\ w_last.val = ListVal(<<>>)

\* no backend occurs twice among the backends a call invoked
InvokedAtMostOnce ==
    \A i, j \in 1..Len(w_last.trace) : i # j => w_last.trace[i] # w_last.trace[j]

\* C17 (as claimed): when the backend selected for a uniform call fails, the
\* other backend, if present, is invoked exactly once for that call, from
\* advanced to legacy and from legacy to advanced, and no backend is invoked
\* more than once.
C17_Original ==
    (w_last.op \in UniformOps /\ w_last.failed) =>
        /\ (w_last.trace[1] = "v2" /\ w_v1) => w_last.trace = <<"v2", "v1">>
        /\ (w_last.trace[1] = "v1" /\ w_v2) => w_last.trace = <<"v1", "v2">>
        /\ InvokedAtMostOnce

\* C17 (amended): when the advanced backend was selected and its call fails,
\* the legacy instance is invoked exactly once for that call if it is present
\* and has a method of that name, and nothing else is invoked otherwise; when
\* legacy was selected and fails, the advanced backend is not invoked; no
\* backend is invoked more than once per call.
C17_RetryOnceOnLegacy ==
    (w_last.op \in UniformOps /\ w_last.failed) =>
        /\ (w_last.trace[1] = "v2" /\ w_v1 /\ w_last.op \in V1Attrs)
              => w_last.trace = <<"v2", "v1">>
        /\ (w_last.trace[1] = "v2" /\ ~(w_v1 /\ w_last.op \in V1Attrs))
              => w_last.trace = <<"v2">>
        /\ w_last.trace[1] = "v1" => w_last.trace = <<"v1">>
        /\ InvokedAtMostOnce

C17_Witness ==
    /\ w_last.op = "retrieve_relevant_memories"
    /\ w_last.failed
    /\ w_last.fail2
    /\ w_last.trace = <<"v2", "v1">>

\* some backend that is present exposes the name
SomePresentExposes(item) ==
    \/ w_v2 /\ item \in V2Attrs
    \/ w_v1 /\ item \in V1Attrs
    \/ w_v1_mod /\ item \in V1ModAttrs

\* C18 (as claimed): a forwarded name resolves to the active backend's
\* attribute, to the advanced one when both expose it, and the request fails
\* exactly when no present backend exposes the name.
C18_Original ==
    w_last.op = "__getattr__" =>
        /\ w_last.raised <=> ~SomePresentExposes(w_last.val.item)
        /\ (~w_last.raised /\ w_v2 /\ w_last.val.item \in V2Attrs
            /\ ExpectedBackend = "v2") => w_last.val.backend = "v2"

\* C18 (amended): a forwarded name resolves to the advanced instance when the
\* selection rule names advanced and that instance is present and exposes the
\* name, otherwise to the legacy instance if it exposes the name, otherwise to
\* the legacy module if it does; the request fails with AttributeError for a
\* name with a leading underscore and when none of the three applies, also
\* when a present advanced instance that is not selected exposes the name.
C18_ForwardingRule ==
    w_last.op = "__getattr__" =>
        LET item == w_last.val.item
            private == item \in {"_prune_user_memory", "_get_or_create_collection"}
            by2 == ExpectedBackend = "v2" /\ w_v2 /\ item \in V2Attrs
            by1 == w_v1 /\ item \in V1Attrs
            bym == w_v1_mod /\ item \in V1ModAttrs
        IN  /\ w_last.val.backend = "v2" <=> ~private /\ by2
            /\ w_last.val.backend = "v1" <=> ~private /\ ~by2 /\ by1
            /\ w_last.val.backend = "v1_mod" <=> ~private /\ ~by2 /\ ~by1 /\ bym
            /\ w_last.raised <=> private \/ (~by2 /\ ~by1 /\ ~bym)
            /\ w_last.raised <=> w_last.val.backend = "AttributeError"

C18_Witness ==
    /\ w_last.op = "__getattr__"
    /\ w_last.val.item = "collection"
    /\ w_v2 /\ w_v1
    /\ ~w_last.flag1
    /\ w_last.val.backend = "v2"

\* thread t is between with self.lock: and the end of that block
InCriticalSection(t) ==
    pc[t] \in {"add_body", "add_prune", "add_ret", "retrieve_body",
               "retrieve_ret", "clear_body", "clear_ret"}

\* C19: at most one add / retrieve / clear call is between its first and its
\* last access to the index, the thread holding the lock; the pruning pass of
\* an add runs while that add holds the lock; and whenever the lock is free
\* the collection equals the result of running the completed calls one after
\* another in the order they took the lock.
C19_MutualExclusion ==
    /\ \A t1, t2 \in Threads :
          (InCriticalSection(t1) /\ InCriticalSection(t2)) => t1 = t2
    /\ \A t \in Threads : InCriticalSection(t) => lock = t
    /\ lock = NoLock => collection = serial

C19_Witness ==
    /\ pc["t1"] = "add_prune"
    /\ args["t1"].user_id = "u1"
    /\ pc["t2"] = "clear_lock"
    /\ args["t2"].user_id = "u2"
    /\ collection # serial
    /\ Len(serial) >= 1

InCall(t) == pc[t] # "idle" \/ wpc[t] # "none"

\* thread t is inside a call and can take its next step: a call stops only
\* where it asks for a lock, and there the lock can be taken
CanContinue(t) ==
    IF wpc[t] \in {"w_lock", "f1_lock", "f2_lock"} THEN ENABLED CLock(t)
    ELSE IF pc[t] \in {"add_lock", "retrieve_lock", "clear_lock"}
         THEN ENABLED Acquire(t)
         ELSE TRUE

\* C20: a call the wrapper forwards to the store holds the wrapper lock for
\* as long as it waits for or holds the store lock (wrapper lock first, store
\* lock second, released in reverse order); no thread asks for the wrapper
\* lock while it holds the store lock; and whenever some thread is inside a
\* call, some thread inside a call is not stopped at a lock (no deadlock).
C20_LockNesting ==
    /\ \A t \in Threads : wpc[t] = "w_in_v2" => w_lock = t
    /\ \A t \in Threads :
          (lock = t /\ wpc[t] # "none") => (wpc[t] = "w_in_v2" /\ w_lock = t)
    /\ \A t \in Threads :
          wpc[t] \in {"w_lock", "f1_lock", "f2_lock"} => lock # t
    /\ (\E t \in Threads : InCall(t))
          => \E t \in Threads : InCall(t) /\ CanContinue(t)

C20_Witness ==
    /\ wpc["t1"] = "w_in_v2"
    /\ pc["t1"] = "add_lock"
    /\ w_lock = "t1"
    /\ lock = "t2"
    /\ wpc["t2"] = "none"
    /\ pc["t2"] = "retrieve_ret"

IsWriteStep(t) == pc[t] = "add_body" /\ pc'[t] = "add_prune"

\* C21: the id an add computes is held by no stored record, and the add's
\* write stores one more record: no two adds share an id, and no add is
\* merged into a record an earlier add created.
C21_FreshIdStep ==
    \A t \in Threads :
       IsWriteStep(t) =>
          /\ memory_id'[t] \notin StoredIds
          /\ Len(collection') = Len(collection) + 1

C21_UniqueIds == [][C21_FreshIdStep]_vars

IsRetrieveStep(t) == pc[t] = "retrieve_body" /\ pc'[t] = "retrieve_ret"

\* C22: a record that is stored before and after a step keeps its owner,
\* content, type, tags, importance and created_at; its last_access changes
\* only in a retrieve for its owner.
C22_FrameStep ==
    \A i \in 1..Len(collection) : \A j \in 1..Len(collection') :
       LET r == collection[i]
           q == collection'[j]
       IN  r.id = q.id =>
              /\ q.user_id = r.user_id
              /\ q.content = r.content
              /\ q.memory_type = r.memory_type
              /\ q.tags = r.tags
              /\ q.importance = r.importance
              /\ q.created_at = r.created_at
              /\ q.last_access # r.last_access =>
                    \E t \in Threads :
                       IsRetrieveStep(t) /\ args[t].user_id = r.user_id

C22_RecordImmutable == [][C22_FrameStep]_vars

\* a record that a retrieve has bumped is still stored, with its creation
\* time, after a later add of its owner wrote and pruned
C22_Witness ==
    \E t \in Threads :
       /\ pc[t] = "add_ret"
       /\ \E i \in 1..Len(items[t]) : items[t][i].id \notin StoredIds
       /\ \E i \in 1..Len(collection) :
             /\ collection[i].user_id = args[t].user_id
             /\ collection[i].id # memory_id[t]
             /\ collection[i].last_access > collection[i].created_at

\* C23: every stored record has last_access >= created_at.
C23_AccessNotBeforeCreation ==
    \A i \in 1..Len(collection) :
       collection[i].last_access >= collection[i].created_at

\* a retrieve bumped a record that was created earlier, and a record written
\* in the current second is stored next to it
C23_Witness ==
    /\ \E i \in 1..Len(collection) :
          collection[i].last_access > collection[i].created_at
    /\ \E i \in 1..Len(collection) :
          /\ collection[i].created_at = clock
          /\ collection[i].last_access = clock
          /\ clock > 0

IsBodyStep(t) ==
    /\ pc[t] \in {"add_body", "add_prune", "retrieve_body", "clear_body"}
    /\ pc'[t] # pc[t]

\* C24: a step of an add (write or pruning pass), retrieve or clear called
\* for owner a leaves every other owner's records as they are, returns only
\* records of a, and its pruning pass evicts a non-expired record of a only
\* if a's own records exceed the cap, however many records other owners hold.
C24_IsolationStep ==
    \A t \in Threads :
       IsBodyStep(t) =>
          LET a == args[t].user_id
              mine == OfUser(collection, a)
          IN  /\ \A b \in Users \ {a} : OfUser(collection', b) = OfUser(collection, b)
              /\ IsRetrieveStep(t) =>
                    \A k \in 1..Len(processed'[t]) :
                       processed'[t][k].metadata.user_id = a
              /\ IsWriteStep(t) => memory_id'[t][1] = a
              /\ (IsPruneStep(t) /\ Len(mine) <= max_items_per_user) =>
                    \A i \in 1..Len(mine) :
                       ~AgedOut(mine[i], clock) =>
                          \E j \in 1..Len(collection') : collection'[j] = mine[i]

C24_OwnerIsolation == [][C24_IsolationStep]_vars

\* an add's pruning pass for an owner at the cap has run while another owner
\* holds records too, so that the collection holds more than the cap
C24_Witness ==
    \E t \in Threads :
       /\ pc[t] = "add_ret"
       /\ Len(items[t]) = max_items_per_user
       /\ Len(OfUser(collection, args[t].user_id)) = max_items_per_user
       /\ \E b \in Users \ {args[t].user_id} : OfUser(collection, b) # <<>>

\* C25: when an add has written its record and run its pruning pass in the
\* same second, the record with the id the add is about to return is stored.
C25_OwnRecordSurvives ==
    \A t \in Threads :
       (pc[t] = "add_ret" /\ prune_now[t] = memory_id[t][2])
          => memory_id[t] \in StoredIds

OutsideSection(o) == pc[o] \in {"idle", "add_lock", "retrieve_lock", "clear_lock"}

\* C26: an add goes from its write to its pruning pass to its return; the
\* write stores the record under the add's id, the pass is run for the
\* add's owner, and from the write to the end of the pass the add holds the
\* lock, no other thread is inside or enters an operation's body, and the
\* collection changes in no step but the pass itself.
C26_AddSectionStep ==
    \A t \in Threads :
       /\ pc[t] = "add_body" =>
             /\ pc'[t] \in {"add_body", "add_prune"}
             /\ pc'[t] = "add_prune" =>
                   \E i \in 1..Len(collection') : collection'[i].id = memory_id'[t]
       /\ pc[t] = "add_prune" =>
             /\ lock = t
             /\ pc'[t] \in {"add_prune", "add_ret"}
             /\ \A o \in Threads \ {t} : OutsideSection(o) /\ OutsideSection(o)'
             /\ pc'[t] = "add_prune" => collection' = collection
             /\ pc'[t] = "add_ret" =>
                   /\ items'[t] = OfUser(collection, args[t].user_id)
                   /\ \A b \in Users \ {args[t].user_id} :
                         OfUser(collection', b) = OfUser(collection, b)
                   /\ processed'[t] = <<memory_id[t]>>
       /\ (args[t].op = "add" /\ pc[t] # "idle" /\ pc'[t] = "idle") =>
             pc[t] = "add_ret"

C26_WriteThenPrune == [][C26_AddSectionStep]_vars

\* an add has written and not yet pruned, a second has passed since the
\* write, and the other thread waits for the lock with a call for the same owner
C26_Witness ==
    \E t \in Threads : \E o \in Threads \ {t} :
       /\ pc[t] = "add_prune"
       /\ memory_id[t][2] < clock
       /\ pc[o] \in {"add_lock", "retrieve_lock", "clear_lock"}
       /\ args[o].user_id = args[t].user_id

Window(r) ==
    IF r.memory_type = "shortterm" THEN short_term_expire_sec ELSE history_expire_sec

\* C27: of the shortterm / history records a pruning pass at time now found,
\* those with now - created_at greater than their window are deleted,
\* whatever their last_access, and those with now - created_at at most the
\* window are kept unless the owner's non-expired records exceed the cap.
C27_ExpiryFromCreation ==
    \A t \in Threads :
       pc[t] = "add_ret" =>
          LET now == prune_now[t]
              fresh == {i \in 1..Len(items[t]) :
                           ~(/\ items[t][i].memory_type \in {"shortterm", "history"}
                             /\ now - items[t][i].created_at > Window(items[t][i]))}
          IN  \A i \in 1..Len(items[t]) :
                 LET r == items[t][i]
                 IN  r.memory_type \in {"shortterm", "history"} =>
                        /\ now - r.created_at > Window(r) => r.id \notin StoredIds
                        /\ (now - r.created_at <= Window(r)
                              /\ Cardinality(fresh) <= max_items_per_user)
                             => r.id \in StoredIds

\* a pass deleted a record that a retrieve had bumped less than its window
\* ago and kept a record whose age equals its window exactly
C27_Witness ==
    \E t \in Threads :
       /\ pc[t] = "add_ret"
       /\ \E i \in 1..Len(items[t]) :
             LET r == items[t][i]
             IN  /\ r.memory_type \in {"shortterm", "history"}
                 /\ r.last_access > r.created_at
                 /\ prune_now[t] - r.last_access <= Window(r)
                 /\ prune_now[t] - r.created_at > Window(r)
                 /\ r.id \notin StoredIds
       /\ \E j \in 1..Len(items[t]) :
             LET q == items[t][j]
             IN  /\ q.memory_type \in {"shortterm", "history"}
                 /\ prune_now[t] - q.created_at = Window(q)
                 /\ q.id \in StoredIds

\* the records a pass found that are not expired at the time of the pass
FreshFound(t) ==
    {i \in 1..Len(items[t]) : ~AgedOut(items[t][i], prune_now[t])}

\* C28: after a pruning pass, if the non-expired records it found are within
\* the cap none of them is deleted; otherwise exactly (non-expired count -
\* max_items_per_user) of them are deleted and the owner holds exactly
\* max_items_per_user records.
C28_EvictsExactExcess ==
    \A t \in Threads :
       pc[t] = "add_ret" =>
          LET fresh == FreshFound(t)
              gone == {i \in fresh : items[t][i].id \notin StoredIds}
          IN  IF Cardinality(fresh) <= max_items_per_user
              THEN /\ gone = {}
                   /\ Len(OfUser(collection, args[t].user_id)) = Cardinality(fresh)
              ELSE /\ Cardinality(gone) = Cardinality(fresh) - max_items_per_user
                   /\ Len(OfUser(collection, args[t].user_id)) = max_items_per_user

\* a pass found more non-expired records than the cap, two of them of equal
\* importance, evicted one of the two and left exactly the cap
C28_Witness ==
    \E t \in Threads :
       /\ pc[t] = "add_ret"
       /\ Cardinality(FreshFound(t)) > max_items_per_user
       /\ \E i \in FreshFound(t) : \E j \in FreshFound(t) :
             /\ i # j
             /\ items[t][i].importance = items[t][j].importance
             /\ items[t][i].id \notin StoredIds
             /\ items[t][j].id \in StoredIds
       /\ Len(OfUser(collection, args[t].user_id)) = max_items_per_user

\* 0.7*(1 - distance) + 0.2*recency + 0.1*importance, times 100 * DAY, with
\* recency = 1 - min(1, (now - last_access) / DAY)
WeightedScore(dist10, last_access, importance, now) ==
    LET elapsed == IF now - last_access < DAY THEN now - last_access ELSE DAY
    IN  W_SIM * (10 - dist10) * DAY + W_RECENCY * 10 * (DAY - elapsed)
        + W_IMPORTANCE * importance * DAY

\* position of the record with this id in the returned list, 0 if absent
ReturnedAt(t, id) ==
    IF \E k \in 1..Len(processed[t]) : processed[t][k].id = id
    THEN CHOOSE k \in 1..Len(processed[t]) : processed[t][k].id = id
    ELSE 0

\* C29: every record a retrieve returns carries the weighted score computed
\* from the candidate's last_access as the query found it, before the bump;
\* and of two candidates with equal last_access and importance, one at
\* distance 0 and one at distance 1, the second is returned only behind the
\* first.
C29_Scoring ==
    \A t \in Threads :
       pc[t] = "retrieve_ret" =>
          /\ \A k \in 1..Len(processed[t]) :
                \E i \in 1..Len(items[t]) :
                   /\ items[t][i].id = processed[t][k].id
                   /\ processed[t][k].score =
                         WeightedScore(Distance(args[t].content, items[t][i].content),
                                       items[t][i].last_access,
                                       items[t][i].importance, now_l[t])
          /\ \A i \in 1..Len(items[t]) : \A j \in 1..Len(items[t]) :
                (/\ items[t][i].last_access = items[t][j].last_access
                 /\ items[t][i].importance = items[t][j].importance
                 /\ Distance(args[t].content, items[t][i].content) = 0
                 /\ Distance(args[t].content, items[t][j].content) = 10
                 /\ ReturnedAt(t, items[t][j].id) # 0)
                => /\ ReturnedAt(t, items[t][i].id) # 0
                   /\ ReturnedAt(t, items[t][i].id) < ReturnedAt(t, items[t][j].id)

\* a retrieve returned two records of equal importance that were last
\* accessed in the same, earlier second, the nearer one being stored behind
\* the farther one
C29_Witness ==
    \E t \in Threads :
       /\ pc[t] = "retrieve_ret"
       /\ Len(processed[t]) = 2
       /\ \E i \in 1..Len(items[t]) : \E j \in 1..Len(items[t]) :
             /\ items[t][i].last_access = items[t][j].last_access
             /\ items[t][i].last_access < now_l[t]
             /\ items[t][i].importance = items[t][j].importance
             /\ Distance(args[t].content, items[t][i].content) = 0
             /\ Distance(args[t].content, items[t][j].content) = 10
             /\ processed[t][1].id = items[t][i].id
             /\ processed[t][2].id = items[t][j].id
             /\ \E a \in 1..Len(collection) : \E b \in 1..Len(collection) :
                   /\ a > b
                   /\ collection[a].id = items[t][i].id
                   /\ collection[b].id = items[t][j].id

\* C30: the backend references never change; and with no advanced backend
\* constructed, a uniform call invokes no advanced backend and leaves the
\* advanced collection alone, whatever the override flags are, and returns
\* the value of a legacy call or the neutral value.
C30_FallbackStep ==
    /\ w_v2' = w_v2 /\ w_v1' = w_v1 /\ w_v1_mod' = w_v1_mod
    /\ (~w_v2 /\ nops' # nops /\ w_last'.op \in UniformOps) =>
          /\ \A i \in 1..Len(w_last'.trace) : w_last'.trace[i] # "v2"
          /\ collection' = collection
          /\ ~w_last'.raised
          /\ \/ w_last'.val = Neutral(w_last'.op)
             \/ /\ w_last'.trace = <<"v1">>
                /\ ~w_last'.failed
                /\ w_last'.val.tag \in {"None", "raw"}

C30_PermanentFallback == [][C30_FallbackStep]_vars

\* with no advanced backend and force_use_v2 in effect, a retrieve was
\* answered by the legacy instance with its stored items
C30_Witness ==
    /\ ~w_v2
    /\ w_last.op = "retrieve_relevant_memories"
    /\ w_last.flag2 /\ force_v2
    /\ w_last.selected = "v2"
    /\ w_last.trace = <<"v1">>
    /\ w_last.val.tag = "raw"
    /\ w_last.val.documents # <<>>

\* C31: a delete_memory call made while the selection rule names a present
\* advanced backend invokes the advanced backend first, and the legacy
\* backend only behind it.
C31_DeleteServedByAdvanced ==
    (w_last.op = "delete_memory" /\ w_last.selected = "v2" /\ w_v2) =>
        /\ w_last.trace # <<>>
        /\ w_last.trace[1] = "v2"

\* C32: health_check names as active the backend the selection rule names;
\* and when it names a present advanced backend, the uniform call issued
\* next under the same flags, if no backend call of it fails, is served by
\* the advanced backend.
C32_ActiveServesStep ==
    (w_last.op = "health_check" /\ w_last.flag1 = force_v1
        /\ w_last.flag2 = force_v2) =>
       /\ w_last.val.active = ExpectedBackend
       /\ (w_last.val.active = "v2" /\ w_last.val.v2
             /\ nops' # nops /\ w_last'.op \in UniformOps /\ ~w_last'.failed)
            => w_last'.trace = <<"v2">>

C32_ActiveServesNext == [][C32_ActiveServesStep]_vars

IsCleanUpStep ==
    /\ nops' # nops
    /\ w_last'.op = "clean_up_memory"
    /\ ~w_last'.failed
    /\ v1_collection_name # NoName

IsLegacyAddStep == nops' # nops /\ w_last'.op = "add_memory"

\* the cleanup rule for a stored item, with the label the stored state is
\* compared with
Discarded(doc, label, now) ==
    \/ now - doc.metadata.timestamp[2] > MEMORY_EXPIRY_TIME
    \/ \E i \in 1..Len(doc.document) : doc.document[i] \in {"shiwang", "shengqi"}
    \/ doc.metadata.state # label

\* the step is a pass over the bound collection that deletes exactly the
\* items the rule discards for this label and leaves the others as they are
CleanUpBy(label) ==
    /\ v1_store'[v1_collection_name] =
          SelectSeq(v1_store[v1_collection_name],
                    LAMBDA d : ~Discarded(d, label, clock))
    /\ \A n \in DOMAIN v1_store :
          n # v1_collection_name => v1_store'[n] = v1_store[n]

\* a legacy add deletes and changes no stored item
AddKeepsAll ==
    \A n \in DOMAIN v1_store :
       /\ Len(v1_store'[n]) >= Len(v1_store[n])
       /\ SubSeq(v1_store'[n], 1, Len(v1_store[n])) = v1_store[n]

\* C33 (as claimed): a clean_up_memory pass that completes without error
\* deletes exactly the items older than 30 days, or containing a marker, or
\* whose state differs from the mood label of the caller at the time of the
\* cleanup; a legacy add deletes nothing.
C33_OriginalStep ==
    /\ IsCleanUpStep => CleanUpBy(w_last'.args.third)
    /\ IsLegacyAddStep => AddKeepsAll

C33_CleanUpStep ==
    /\ IsCleanUpStep => CleanUpBy("idle")
    /\ IsLegacyAddStep => AddKeepsAll

LocksFree ==
    \A t \in Threads : ~InCall(t) => (lock # t /\ w_lock # t)

\* C34: under a fair scheduler every call a thread has entered returns, on
\* the paths where the index raises too, and a thread that has returned
\* holds neither the wrapper's lock nor the store's.
C34_CallsReturn ==
    /\ []LocksFree
    /\ \A t \in Threads : InCall(t) ~> ~InCall(t)

\* a wrapper add is in the store's pruning pass, holding both locks, and the
\* other thread waits for the wrapper's lock
C34_Witness ==
    \E t \in Threads : \E o \in Threads \ {t} :
       /\ wpc[t] = "w_in_v2" /\ pc[t] = "add_prune"
       /\ w_lock = t /\ lock = t
       /\ wpc[o] \in {"w_lock", "f1_lock", "f2_lock"}

IsRaiseStep(t) == wpc[t] = "w_in_v2" /\ wpc'[t] = "w_v1"

\* C35: when the advanced add of a wrapper call raises, the advanced
\* collection holds what the completed calls left and nothing of this call,
\* so that the legacy add the wrapper goes on to is the only write of the call.
C35_RaisedAddStep ==
    \A t \in Threads :
       (IsRaiseStep(t) /\ args[t].op = "add") => collection' = serial

C35_NoDuplicateWrite == [][C35_RaisedAddStep]_vars

\* C36: the memories a chat request of user U retrieves for its prompt are
\* read from U's collection, and the memory it stores is written to U's
\* collection, whatever the other request threads do in between.
C36_OwnCollectionStep ==
    \A t \in Threads :
       /\ (pc[t] = "chat_prompt" /\ pc'[t] # "chat_prompt")
             => v1_collection_name = CollectionOf(args[t].user_id)
       /\ (pc[t] = "chat_add" /\ pc'[t] = "idle")
             => /\ v1_collection_name = CollectionOf(args[t].user_id)
                /\ \A n \in ChatCollections \ {CollectionOf(args[t].user_id)} :
                      v1_store'[n] = v1_store[n]

C36_NoCrossUserWrite == [][C36_OwnCollectionStep]_vars

\* the memories the wrapper's retrieval operation yields for a query
WrapperYield(a) ==
    LET o == Dispatch("retrieve_relevant_memories", TRUE, V2Retrieve(a, v2_broken),
                      V1Retrieve(a, FALSE),
                      V1ModCall("retrieve_relevant_memories", a), ListVal(<<>>))
    IN  IF o.val.tag = "list" THEN o.val.list
        ELSE IF o.val.tag = "raw" THEN o.val.documents
        ELSE <<>>

\* C37: build_memory_context does not raise; it returns the empty string
\* when the wrapper's retrieval yields nothing for the query, and a section
\* listing the memories when it yields some.
C37_MemorySectionListed ==
    (/\ w_last.op = "build_memory_context"
     /\ w_last.flag1 = force_v1 /\ w_last.flag2 = force_v2
     /\ w_last.v1_name = v1_collection_name) =>
        /\ ~w_last.raised
        /\ WrapperYield(w_last.args) = <<>> => w_last.val.text = ""
        /\ WrapperYield(w_last.args) # <<>> =>
              /\ w_last.val.text # ""
              /\ w_last.val.memories = WrapperYield(w_last.args)

====
